---------------------------- MODULE Spec2Model ----------------------------
(***************************************************************************)
(* A model of the multi-recipient hybrid encryption layer of pqc-mockup:   *)
(* the crypto providers (pqcProvider.js, cryptoLoader.js, naclProvider.js) *)
(* and the coordinator MultiRecipientCrypto (multiRecipientCrypto.js).     *)
(*                                                                         *)
(* Cryptographic primitives are symbolic: a ciphertext is a record that    *)
(* names the key it was made under, a signature names its signer and the   *)
(* bytes it covers.  Text codecs (TextEncoder, TextDecoder, base64, JSON)  *)
(* are modelled by what they do to the values, not as the identity.        *)
(*                                                                         *)
(* A call that may throw returns a record [ok, val, err, ...]; ok = FALSE  *)
(* is a thrown Error whose message is err.                                 *)
(***************************************************************************)
EXTENDS Integers, Sequences, FiniteSets, TLC

VARIABLES
    mbox,          \* a mailbox message between two providers' encryptors
    team,          \* a team envelope between two team encryptors
    cryptoScheme,  \* the scheme the participants and coordinators are bound to
    moduleLoaded,  \* the chainpad_crypto module is loaded (window.chainpad_crypto)
    hasKeys,       \* hasKeys[u]: user u has generated its key pairs
    coord,         \* coord[u]: the state of user u's MultiRecipientCrypto
    sharedBlock,   \* the shared block in flight, Null before the first one
    created,       \* the number of blocks created
    forged,        \* the block in flight was changed in transit
    last,          \* the last coordinator call and its outcome
    ini,           \* concurrent init() calls on one coordinator and its provider
    prov,          \* a call of the provider factory or of createTeamEncryptor
    bcast,         \* a broadcastSharedBlock call of the document server
    sess,          \* team operations interleaved on one coordinator
    messageSizes   \* messageSizes[u]: this.user.messageSizes of user u

coordVars == <<cryptoScheme, moduleLoaded, hasKeys, coord, sharedBlock, created, forged, last>>
vars == <<mbox, team, coordVars, ini, prov, bcast, sess, messageSizes>>

\* The variables a provider-level mailbox step, a team step, a coordinator
\* step, an init step and a provider call leave alone
notMbox == <<team, coordVars, ini, prov, bcast, sess, messageSizes>>
notTeam == <<mbox, coordVars, ini, prov, bcast, sess, messageSizes>>
notCoord == <<mbox, team, ini, prov, bcast, sess, messageSizes>>
notIni == <<mbox, team, coordVars, prov, bcast, sess, messageSizes>>
notProv == <<mbox, team, coordVars, ini, bcast, sess, messageSizes>>
notBcast == <<mbox, team, coordVars, ini, prov, sess, messageSizes>>
notSess == <<mbox, team, coordVars, ini, prov, bcast, messageSizes>>

(***************************************************************************)
(* Bounds of the model.                                                    *)
(***************************************************************************)
NumUsers == 2
MaxLen == 2
MaxTamperLen == 1
MaxDataLen == 1
MaxRecipients == 2
MaxBlocks == 1

Users == 1..NumUsers

(***************************************************************************)
(* JavaScript values.  Every value is a record with a type tag t.          *)
(***************************************************************************)
Null == [t |-> "null"]
Undef == [t |-> "undefined"]
EmptyStr == [t |-> "str", s |-> <<>>]
JsTrue == [t |-> "bool", b |-> TRUE]
JsFalse == [t |-> "bool", b |-> FALSE]
\* A number, and a string that is no key
Num == [t |-> "num"]
BadKey == [t |-> "str", s |-> <<"a">>]

\* The UTF-16 code units a plaintext is made of: an ordinary letter, the
\* byte order mark U+FEFF, and an unpaired surrogate.  "RC" is U+FFFD, the
\* replacement character, which the codecs produce.
Chars == {"a", "BOM", "LS"}

RECURSIVE StringsUpTo(_)
StringsUpTo(n) ==
    IF n = 0 THEN {<<>>}
    ELSE LET shorter == StringsUpTo(n - 1)
         IN  shorter \cup {Append(s, c) : s \in {x \in shorter : Len(x) = n - 1}, c \in Chars}

Plaintexts == StringsUpTo(MaxLen)

Str(s) == [t |-> "str", s |-> s]
Bytes(b) == [t |-> "u8", b |-> b]

\* The text JSON.stringify produces for a value, and its UTF-8 bytes.
JsonText(v) == [t |-> "jsontext", v |-> v]
JsonBytes(v) == [t |-> "u8json", v |-> v]

\* new TextEncoder().encode(s): UTF-8 of the string; an unpaired surrogate
\* is encoded as U+FFFD.
Utf8Encode(s) == [i \in 1..Len(s) |-> IF s[i] = "LS" THEN "RC" ELSE s[i]]

\* new TextDecoder().decode(b): ignoreBOM is false, so a leading byte order
\* mark is dropped from the output.
Utf8Decode(b) == IF Len(b) > 0 /\ b[1] = "BOM" THEN Tail(b) ELSE b

\* textToBytes(text): a Uint8Array is returned as it is.
textToBytes(text) ==
    CASE text.t = "str" -> Bytes(Utf8Encode(text.s))
      [] text.t = "jsontext" -> JsonBytes(text.v)
      [] OTHER -> text

\* bytesToText(bytes)
bytesToText(bytes) ==
    CASE bytes.t = "u8" -> Str(Utf8Decode(bytes.b))
      [] bytes.t = "u8json" -> JsonText(bytes.v)
      [] OTHER -> Str(<<"RC">>)

(***************************************************************************)
(* Keys.  rep is the JavaScript representation: the post-quantum suite     *)
(* works on Uint8Array keys ("u8"), the NaCl and ElGamal providers on      *)
(* base64 strings ("b64").                                                 *)
(***************************************************************************)
Schemes == {"pqc", "nacl", "elgamal"}

\* ENCRYPTOR_TYPES: the values MAILBOX and TEAM
ENCRYPTOR_TYPES == {"mailbox", "team"}

KeyRep(scheme) == IF scheme = "pqc" THEN "u8" ELSE "b64"

KemPub(i, rep) == [t |-> "kempub", id |-> i, rep |-> rep]
KemSec(i, rep) == [t |-> "kemsec", id |-> i, rep |-> rep]
SigPub(i, rep) == [t |-> "sigpub", id |-> i, rep |-> rep]
SigSec(i, rep) == [t |-> "sigsec", id |-> i, rep |-> rep]

\* provider.generateKEMKeyPair() / generateDSAKeyPair() for user i
generateKEMKeyPair(scheme, i) ==
    [publicKey |-> KemPub(i, KeyRep(scheme)), secretKey |-> KemSec(i, KeyRep(scheme))]
generateDSAKeyPair(scheme, i) ==
    [publicKey |-> SigPub(i, KeyRep(scheme)), secretKey |-> SigSec(i, KeyRep(scheme))]

\* The keys object MultiRecipientCrypto.createMailboxEncryptor builds.
MailboxKeys(scheme, i) ==
    [curvePublic |-> KemPub(i, KeyRep(scheme)),
     curvePrivate |-> KemSec(i, KeyRep(scheme)),
     signingKey |-> SigSec(i, KeyRep(scheme)),
     validateKey |-> SigPub(i, KeyRep(scheme))]

(***************************************************************************)
(* Results of calls.                                                       *)
(*   verified: a signature verification was performed and returned true    *)
(*   under: the public key that verification used                          *)
(*   decaps: the number of decapsulations / key agreements performed       *)
(***************************************************************************)
Return(v) == [ok |-> TRUE, val |-> v, err |-> "", verified |-> FALSE, under |-> Null, decaps |-> 0]
Throw(msg) == [ok |-> FALSE, val |-> Null, err |-> msg, verified |-> FALSE, under |-> Null, decaps |-> 0]

(***************************************************************************)
(* The primitive suite (cryptoSchemes.js wraps @noble; the primitives are  *)
(* modelled by their algebraic contract).                                  *)
(***************************************************************************)
Garbage == [t |-> "garbage"]

\* kemSchemes['ml-kem-1024'].encapsulate(pk): r is the encapsulation's
\* randomness.  A key of the wrong length is rejected.
KemEncapsulate(pk, r) ==
    IF pk.t = "kempub" /\ pk.rep = "u8"
    THEN Return([cipherText |-> [t |-> "kemct", id |-> pk.id, r |-> r, flip |-> FALSE],
                 sharedSecret |-> [t |-> "ss", id |-> pk.id, r |-> r, rej |-> 0]])
    ELSE Throw("invalid public key")

\* kemSchemes['ml-kem-1024'].decapsulate(ct, sk): ML-KEM rejects implicitly:
\* a ciphertext that is not an encapsulation against sk's public key
\* decapsulates to an unrelated secret, not to an error.
KemDecapsulate(ct, sk) ==
    IF ct.t = "kemct" /\ sk.t = "kemsec" /\ sk.rep = "u8"
    THEN IF ct.id = sk.id /\ ~ct.flip
         THEN Return([t |-> "ss", id |-> ct.id, r |-> ct.r, rej |-> 0])
         ELSE Return([t |-> "ss", id |-> ct.id, r |-> ct.r, rej |-> sk.id])
    ELSE Throw("invalid ciphertext or secret key")

\* symmetricCiphers['aes-gcm'].encrypt(data, key): iv || gcm(key, iv)(data)
SymEncrypt(bytes, key) == [t |-> "sealed", key |-> key, pt |-> bytes]

\* A cipher without authentication: a wrong key yields garbage, not an error.
SymDecryptUnauthenticated(sealed, key) ==
    IF sealed.t = "sealed" /\ sealed.key = key
    THEN Return(sealed.pt)
    ELSE Return(Bytes(<<"RC">>))

\* symmetricCiphers['aes-gcm'].decrypt(encryptedData, key): the tag is
\* checked; a wrong key or a changed ciphertext throws.
SymDecrypt(sealed, key) ==
    IF sealed.t = "sealed" /\ sealed.key = key
    THEN Return(sealed.pt)
    ELSE Throw("invalid tag")

\* signatureSchemes['ml-dsa-87'].sign(sk, data)
DsaSign(sk, bytes) ==
    IF sk.t = "sigsec" /\ sk.rep = "u8"
    THEN Return([t |-> "sig", signer |-> sk.id, body |-> bytes, flip |-> FALSE])
    ELSE Throw("invalid secret key")

\* signatureSchemes['ml-dsa-87'].verify(pk, data, signature)
DsaVerify(pk, bytes, sig) ==
    IF pk.t = "sigpub" /\ pk.rep = "u8"
    THEN Return(sig.t = "sig" /\ sig.signer = pk.id /\ sig.body = bytes /\ ~sig.flip)
    ELSE Throw("invalid public key")


(***************************************************************************)
(* PQCProvider (pqcProvider.js).                                           *)
(***************************************************************************)
KeyTags == {"kempub", "kemsec", "sigpub", "sigsec"}

IsUint8Array(v) ==
    \/ v.t \in {"u8", "u8json", "kemct", "sig", "garbage"}
    \/ v.t \in KeyTags /\ v.rep = "u8"

\* _ensureUint8Array(data): new Uint8Array(x) of null, undefined or a string
\* is the empty array.
ensureUint8Array(v) == IF IsUint8Array(v) THEN v ELSE Bytes(<<>>)

\* btoa(String.fromCharCode.apply(null, bytes)): the canonical base64 text.
encodeBase64(raw) == [t |-> "b64", canon |-> TRUE, raw |-> raw]

\* atob(str): whitespace, missing padding and non-zero trailing bits are
\* accepted, so several strings decode to the same bytes (canon = FALSE is
\* such a re-encoding).
decodeBase64(v) ==
    IF v.t = "b64" THEN Return(v.raw) ELSE Throw("invalid base64")

encapsulateSecret(publicKey, r) == KemEncapsulate(ensureUint8Array(publicKey), r)

decapsulateSecret(ciphertext, secretKey) ==
    KemDecapsulate(ensureUint8Array(ciphertext), ensureUint8Array(secretKey))

\* encryptData(data, sharedSecret): a string is encoded first; the bytes are
\* sealed under the first 32 bytes of the secret (an ML-KEM secret is 32).
encryptData(data, sharedSecret) == encodeBase64(SymEncrypt(textToBytes(data), sharedSecret))

decryptData(encryptedData, sharedSecret) ==
    LET raw == decodeBase64(encryptedData)
        pt == SymDecrypt(raw.val, sharedSecret)
    IN  IF ~raw.ok THEN Throw("AES-GCM Decryption failed")
        ELSE IF ~pt.ok THEN Throw("AES-GCM Decryption failed")
        ELSE Return(bytesToText(pt.val))

signData(bytes, secretKey) == DsaSign(ensureUint8Array(secretKey), bytes)

verifySignature(signature, bytes, publicKey) ==
    DsaVerify(ensureUint8Array(publicKey), bytes, ensureUint8Array(signature))

\* createMailboxEncryptor(keys).encrypt(data, recipientPublicKey), data a string
PqcMailboxEncrypt(keys, data, recipientPublicKey, r) ==
    LET enc == encapsulateSecret(recipientPublicKey, r)
        signature == signData(textToBytes(data), keys.signingKey)
    IN  IF ~enc.ok THEN Throw(enc.err)
        ELSE IF ~signature.ok THEN Throw(signature.err)
        ELSE Return([t |-> "pqcmsg",
                     encryptedData |-> encryptData(data, enc.val.sharedSecret),
                     ciphertext |-> enc.val.cipherText,
                     signature |-> signature.val,
                     senderPublicKey |-> keys.curvePublic,
                     dataType |-> "string"])

\* createMailboxEncryptor(keys).decrypt(message, senderPublicKey)
PqcMailboxDecrypt(keys, message, senderPublicKey) ==
    LET dec == decapsulateSecret(message.ciphertext, keys.curvePrivate)
        txt == decryptData(message.encryptedData, dec.val)
        decryptedData == IF message.dataType = "string" THEN txt.val
                         ELSE textToBytes(txt.val)
        dataForVerification == textToBytes(txt.val)
        isValid == verifySignature(message.signature, dataForVerification, senderPublicKey)
    IN  IF message.t # "pqcmsg" THEN Throw("Decryption failed")
        ELSE IF ~dec.ok THEN Throw("Decryption failed")
        ELSE IF ~txt.ok THEN [Throw("Decryption failed") EXCEPT !.decaps = 1]
        ELSE IF ~isValid.ok THEN [Throw("Decryption failed") EXCEPT !.decaps = 1]
        ELSE IF ~isValid.val
             THEN [Throw("Decryption failed: Invalid signature") EXCEPT !.decaps = 1]
        ELSE [Return(decryptedData) EXCEPT
                 !.decaps = 1, !.verified = TRUE, !.under = senderPublicKey]

\* JavaScript truthiness of a value
Truthy(v) == ~(v.t \in {"null", "undefined"} \/ v = EmptyStr)

\* The six keys of a team: the team's KEM and signature pairs (team id g)
\* and the member's own KEM pair (user i).
TeamKeySet(g, i, rep) ==
    [t |-> "teamkeys",
     teamCurvePublic |-> KemPub(g, rep), teamCurvePrivate |-> KemSec(g, rep),
     teamEdPublic |-> SigPub(g, rep), teamEdPrivate |-> SigSec(g, rep),
     myCurvePublic |-> KemPub(i, rep), myCurvePrivate |-> KemSec(i, rep)]

\* requiredKeys of validateTeamKeys
RequiredKeys ==
    <<"teamCurvePublic", "teamCurvePrivate", "teamEdPublic", "teamEdPrivate",
      "myCurvePublic", "myCurvePrivate">>

TeamKeyFields == {RequiredKeys[n] : n \in DOMAIN RequiredKeys}

\* requiredKeys.filter(key => !keys[key])
MissingKeys(keys) == {f \in TeamKeyFields : ~Truthy(keys[f])}

\* The Error a validateTeamKeys throws, with the fields its message names
InvalidKeys(msg, fields) == Throw(msg) @@ [fields |-> fields]

\* validateTeamKeys(keys): only the presence of the six keys is checked.
PqcValidateTeamKeys(keys) ==
    /\ Truthy(keys.teamCurvePublic) /\ Truthy(keys.teamCurvePrivate)
    /\ Truthy(keys.teamEdPublic) /\ Truthy(keys.teamEdPrivate)
    /\ Truthy(keys.myCurvePublic) /\ Truthy(keys.myCurvePrivate)

\* The value JSON.parse(JSON.stringify(k)) of a key: a Uint8Array becomes an
\* object of its indices, a string stays a string.
JsonValue(k) == IF k.t \in KeyTags /\ k.rep = "u8" THEN [k EXCEPT !.rep = "json"] ELSE k

\* JSON.stringify(bundle) of an inner or outer bundle
JsonStringify(bundle) ==
    JsonText([f \in DOMAIN bundle |-> JsonValue(bundle[f])])

\* JSON.parse(text)
JsonParse(text) ==
    IF text.t = "jsontext" THEN Return(text.v) ELSE Throw("Unexpected token")

\* The randomness of the inner and the outer encapsulation, and the
\* ephemeral key pair, of one team encryption.
InnerRand == 1
OuterRand == 2
EphemeralId == 0

\* teamEncrypt(data, keys)
teamEncrypt(data, keys) ==
    LET dataBytes == textToBytes(data)
        innerEncapsulation == encapsulateSecret(keys.teamCurvePublic, InnerRand)
        innerEncrypted == encryptData(dataBytes, innerEncapsulation.val.sharedSecret)
        innerBundle == [authorPublicKey |-> keys.myCurvePublic,
                        encryptedData |-> innerEncrypted,
                        ciphertext |-> encodeBase64(innerEncapsulation.val.cipherText)]
        innerBundleBytes == textToBytes(JsonStringify(innerBundle))
        ephemeralKeypair == generateKEMKeyPair("pqc", EphemeralId)
        outerEncapsulation == encapsulateSecret(keys.teamCurvePublic, OuterRand)
        outerEncrypted == encryptData(innerBundleBytes, outerEncapsulation.val.sharedSecret)
        outerBundle == [encryptedData |-> outerEncrypted,
                        ciphertext |-> encodeBase64(outerEncapsulation.val.cipherText),
                        ephemeralPublicKey |-> ephemeralKeypair.publicKey]
        outerBundleBytes == textToBytes(JsonStringify(outerBundle))
        signature == signData(outerBundleBytes, keys.teamEdPrivate)
    IN  IF ~innerEncapsulation.ok THEN Throw(innerEncapsulation.err)
        ELSE IF ~signature.ok THEN Throw(signature.err)
        ELSE Return([t |-> "pqcteam", outerBundle |-> outerBundle,
                     signature |-> encodeBase64(signature.val)])

\* The outcome r of a decryption with the number of decapsulations made and
\* the steps taken, in their order
Traced(r, decaps, trace) == [trace |-> trace] @@ [r EXCEPT !.decaps = decaps]

\* The steps of teamDecrypt: the verification of the signature under a
\* key, and the decapsulation and the decryption of a layer
VerifyStep(key) == [op |-> "verify", layer |-> "outer", key |-> key]
DecapsStep(layer, key) == [op |-> "decapsulate", layer |-> layer, key |-> key]
DecryptStep(layer) == [op |-> "decrypt", layer |-> layer, key |-> Null]

\* The inner layer of teamDecrypt, given the parsed inner bundle
teamDecryptInner(innerBundle, keys) ==
    LET innerCiphertext == decodeBase64(innerBundle.ciphertext)
        innerSharedSecret == decapsulateSecret(innerCiphertext.val, keys.teamCurvePrivate)
        decryptedData == decryptData(innerBundle.encryptedData, innerSharedSecret.val)
        decaps == <<DecapsStep("inner", keys.teamCurvePrivate)>>
    IN  IF ~innerCiphertext.ok THEN Traced(Throw("Team decryption failed"), 0, <<>>)
        ELSE IF ~innerSharedSecret.ok THEN Traced(Throw("Team decryption failed"), 1, decaps)
        ELSE IF ~decryptedData.ok
        THEN Traced(Throw("Team decryption failed"), 1, decaps \o <<DecryptStep("inner")>>)
        ELSE Traced(Return([content |-> decryptedData.val,
                            author |-> innerBundle.authorPublicKey]),
                    1, decaps \o <<DecryptStep("inner")>>)

\* The signature validation of teamDecrypt: whether the signature verifies
\* over the serialized outer bundle under keys.teamEdPublic
teamVerify(message, keys) ==
    LET outerBundleBytes == textToBytes(JsonStringify(message.outerBundle))
        signatureBytes == decodeBase64(message.signature)
        isValid == verifySignature(signatureBytes.val, outerBundleBytes, keys.teamEdPublic)
    IN  IF ~signatureBytes.ok THEN Traced(Throw("Team decryption failed"), 0, <<>>)
        ELSE Traced(isValid, 0, <<VerifyStep(keys.teamEdPublic)>>)

\* teamDecrypt after the signature validation: the outer layer, the parsing
\* of the inner bundle and the inner layer
teamDecryptOuter(message, keys) ==
    LET outerBundle == message.outerBundle
        outerCiphertext == decodeBase64(outerBundle.ciphertext)
        outerSharedSecret == decapsulateSecret(outerCiphertext.val, keys.teamCurvePrivate)
        decryptedOuterBundle == decryptData(outerBundle.encryptedData, outerSharedSecret.val)
        innerBundle == JsonParse(decryptedOuterBundle.val)
        inner == teamDecryptInner(innerBundle.val, keys)
        decaps == <<DecapsStep("outer", keys.teamCurvePrivate)>>
        outer == decaps \o <<DecryptStep("outer")>>
    IN  IF ~outerCiphertext.ok THEN Traced(Throw("Team decryption failed"), 0, <<>>)
        ELSE IF ~outerSharedSecret.ok THEN Traced(Throw("Team decryption failed"), 1, decaps)
        ELSE IF ~decryptedOuterBundle.ok THEN Traced(Throw("Team decryption failed"), 1, outer)
        ELSE IF ~innerBundle.ok THEN Traced(Throw("Team decryption failed"), 1, outer)
        ELSE Traced(inner, 1 + inner.decaps, outer \o inner.trace)

\* A teamDecrypt that decrypts both layers first and validates the
\* signature afterwards, as the mailbox decrypt does
teamDecryptVerifyLast(message, keys, skipValidation) ==
    LET d == teamDecryptOuter(message, keys)
        v == teamVerify(message, keys)
    IN  IF message.t # "pqcteam" THEN Traced(Throw("Team decryption failed"), 0, <<>>)
        ELSE IF skipValidation \/ ~d.ok THEN d
        ELSE IF ~v.ok THEN Traced(Throw("Team decryption failed"), d.decaps, d.trace \o v.trace)
        ELSE IF ~v.val
        THEN Traced(Throw("Team decryption failed: Invalid team signature"), d.decaps,
                    d.trace \o v.trace)
        ELSE [Traced(d, d.decaps, d.trace \o v.trace) EXCEPT
                 !.verified = TRUE, !.under = keys.teamEdPublic]

\* A teamDecrypt that imports the ephemeral public key of the outer bundle
\* before it decrypts
teamDecryptWithEphemeral(message, keys, skipValidation) ==
    LET v == teamVerify(message, keys)
        d == teamDecryptOuter(message, keys)
        imported == encapsulateSecret(message.outerBundle.ephemeralPublicKey, 0)
    IN  IF message.t # "pqcteam" THEN Traced(Throw("Team decryption failed"), 0, <<>>)
        ELSE IF ~skipValidation /\ ~v.ok THEN v
        ELSE IF ~skipValidation /\ ~v.val
        THEN Traced(Throw("Team decryption failed: Invalid team signature"), 0, v.trace)
        ELSE IF ~imported.ok THEN Traced(Throw("Team decryption failed"), 0, <<>>)
        ELSE IF skipValidation THEN d
        ELSE [Traced(d, d.decaps, v.trace \o d.trace) EXCEPT
                 !.verified = d.ok, !.under = IF d.ok THEN keys.teamEdPublic ELSE Null]

\* teamDecrypt(message, keys, skipValidation)
teamDecrypt(message, keys, skipValidation) ==
    LET v == teamVerify(message, keys)
        d == teamDecryptOuter(message, keys)
    IN  IF message.t # "pqcteam" THEN Traced(Throw("Team decryption failed"), 0, <<>>)
        ELSE IF skipValidation THEN d
        ELSE IF ~v.ok THEN v
        ELSE IF ~v.val
        THEN Traced(Throw("Team decryption failed: Invalid team signature"), 0, v.trace)
        ELSE [Traced(d, d.decaps, v.trace \o d.trace) EXCEPT
                 !.verified = d.ok, !.under = IF d.ok THEN keys.teamEdPublic ELSE Null]

\* createTeamEncryptor(keys): null when the keys do not validate (the call
\* throws), else the encryptor, which closes over the keys.
PqcCreateTeamEncryptor(keys) ==
    IF PqcValidateTeamKeys(keys)
    THEN Return([t |-> "teamenc", scheme |-> "pqc", keys |-> keys,
                 can_encrypt |-> JsTrue, can_decrypt |-> JsTrue])
    ELSE InvalidKeys("Missing required team keys", MissingKeys(keys))

\* encryptor.encrypt(data)
PqcTeamEncrypt(encryptor, data) ==
    LET r == teamEncrypt(data, encryptor.keys)
    IN  IF r.ok THEN r ELSE Throw("Team encryption failed")

\* encryptor.decrypt(message, skipValidation = false)
PqcTeamDecrypt(encryptor, message, skipValidation) ==
    LET r == teamDecrypt(message, encryptor.keys, skipValidation)
    IN  IF r.ok THEN r
        ELSE Traced(Throw("Team decryption failed: " \o r.err), r.decaps, r.trace)

(***************************************************************************)
(* ElGamalCryptoProvider (cryptoLoader.js:198-580): ECDH P-256 with an     *)
(* ephemeral key, AES-GCM, and an Ed25519 signature over                   *)
(* ephemeralPublicKey || iv || ciphertext.                                 *)
(***************************************************************************)
IsString(v) == v.t \in {"str", "b64"} \/ (v.t \in KeyTags /\ v.rep = "b64")

\* crypto.subtle.deriveBits({name: "ECDH", public}, private, 256)
Ecdh(privateId, publicId) == [t |-> "dh", ids |-> {privateId, publicId}]

importECDHPublicKey(k) ==
    IF k.t = "kempub" /\ k.rep = "b64" THEN Return(k)
    ELSE Throw("Failed to import recipient public key")

importECDHPrivateKey(k) ==
    IF k.t = "kemsec" /\ k.rep = "b64" THEN Return(k)
    ELSE Throw("Failed to import private key for decryption")

\* Nacl.sign.detached(message, secretKey)
NaclSignDetached(over, secretKey) ==
    IF secretKey.t = "sigsec" /\ secretKey.rep = "b64"
    THEN Return([t |-> "edsig", signer |-> secretKey.id, over |-> over])
    ELSE Throw("bad secret key size")

\* Nacl.sign.detached.verify(message, signature, publicKey)
NaclSignVerify(over, sig, publicKey) ==
    IF publicKey.t = "sigpub" /\ publicKey.rep = "b64" /\ sig.t = "edsig"
    THEN Return(sig.signer = publicKey.id /\ sig.over = over)
    ELSE Throw("bad public key size")

\* createMailboxEncryptor(keys).encrypt(plain, recipientPublicKey); the
\* result is the base64 text of the JSON of the fields below.
ElGamalMailboxEncrypt(keys, plain, recipientPublicKey, e) ==
    LET recipientPubKey == importECDHPublicKey(recipientPublicKey)
        sharedSecret == Ecdh(e, recipientPubKey.val.id)
        ciphertext == SymEncrypt(textToBytes(plain), sharedSecret)
        messageToSign == [eph |-> e, ct |-> ciphertext]
        signature == NaclSignDetached(messageToSign, keys.signingKey)
    IN  IF ~recipientPubKey.ok THEN Throw(recipientPubKey.err)
        ELSE IF ~signature.ok THEN Throw(signature.err)
        ELSE Return([t |-> "elgmsg", version |-> "elgamal-1.0",
                     ephemeralPublicKey |-> e,
                     ciphertext |-> ciphertext,
                     signature |-> signature.val,
                     senderPublicKey |-> keys.curvePublic])

\* createMailboxEncryptor(keys).decrypt(ciphertext, validateKey)
ElGamalMailboxDecrypt(keys, message, validateKey) ==
    LET messageToVerify == [eph |-> message.ephemeralPublicKey, ct |-> message.ciphertext]
        isValid == NaclSignVerify(messageToVerify, message.signature, validateKey)
        checked == Truthy(validateKey)
        privateKey == importECDHPrivateKey(keys.curvePrivate)
        sharedSecret == Ecdh(privateKey.val.id, message.ephemeralPublicKey)
        decrypted == SymDecrypt(message.ciphertext, sharedSecret)
    IN  IF message.t # "elgmsg" THEN Throw("invalid encoding")
        ELSE IF message.version # "elgamal-1.0" THEN Throw("Unsupported encryption version")
        ELSE IF checked /\ ~IsString(validateKey) THEN Throw("validateKey.substring is not a function")
        ELSE IF checked /\ ~isValid.ok THEN Throw(isValid.err)
        ELSE IF checked /\ ~isValid.val THEN Throw("Invalid signature")
        ELSE IF ~privateKey.ok THEN Throw(privateKey.err)
        ELSE IF ~decrypted.ok THEN [Throw("The operation failed") EXCEPT !.decaps = 1]
        ELSE [Return(bytesToText(decrypted.val)) EXCEPT
                 !.decaps = 1, !.verified = checked,
                 !.under = IF checked THEN validateKey ELSE Null]

(***************************************************************************)
(* NaclCryptoProvider (naclProvider.js).  The provider wraps the           *)
(* chainpad_crypto Mailbox encryptor, which is not part of the sources; it *)
(* is modelled by the mailbox algorithm of the specification (encapsulate, *)
(* seal, sign the plaintext; open, then verify unless told to skip).       *)
(***************************************************************************)
ChainpadMailboxEncrypt(keys, plain, recipient) ==
    IF ~(recipient.t = "kempub" /\ recipient.rep = "b64") THEN Throw("invalid recipient key")
    ELSE IF ~(keys.signingKey.t = "sigsec" /\ keys.signingKey.rep = "b64")
         THEN Throw("invalid signing key")
    ELSE Return([t |-> "naclmsg",
                 sealed |-> SymEncrypt(textToBytes(plain), [t |-> "box", to |-> recipient.id]),
                 signature |-> [t |-> "edsig", signer |-> keys.signingKey.id,
                                over |-> textToBytes(plain)]])

ChainpadMailboxDecrypt(keys, cipher, validateKey, skipValidation) ==
    LET opened == SymDecrypt(cipher.sealed, [t |-> "box", to |-> keys.curvePrivate.id])
        isValid == NaclSignVerify(opened.val, cipher.signature, validateKey)
    IN  IF cipher.t # "naclmsg" THEN Throw("invalid message")
        ELSE IF ~(keys.curvePrivate.t = "kemsec" /\ keys.curvePrivate.rep = "b64")
             THEN Throw("invalid private key")
        ELSE IF ~opened.ok THEN [Throw("failed to decrypt") EXCEPT !.decaps = 1]
        ELSE IF skipValidation
             THEN [Return(bytesToText(opened.val)) EXCEPT !.decaps = 1]
        ELSE IF ~isValid.ok \/ ~isValid.val
             THEN [Throw("Invalid signature") EXCEPT !.decaps = 1]
        ELSE [Return(bytesToText(opened.val)) EXCEPT
                 !.decaps = 1, !.verified = TRUE, !.under = validateKey]

\* createMailboxEncryptor(keys).encrypt(plain, recipient)
NaclMailboxEncrypt(keys, plain, recipient) == ChainpadMailboxEncrypt(keys, plain, recipient)

\* createMailboxEncryptor(keys).decrypt(cipher, validateKey)
NaclMailboxDecrypt(keys, cipher, validateKey) ==
    LET skipValidation == validateKey = Undef \/ validateKey = Null
    IN  ChainpadMailboxDecrypt(keys, cipher, validateKey, skipValidation)

\* The chainpad_crypto Team encryptor, modelled by the team algorithm of the
\* specification: the plaintext is sealed for the team key with the author's
\* public key attached, and the envelope is signed with the team signing key.
ChainpadTeamEncrypt(keys, plain) ==
    LET sealed == SymEncrypt(textToBytes(plain), [t |-> "box", to |-> keys.teamCurvePublic.id])
        bundle == [sealed |-> sealed, author |-> keys.myCurvePublic]
    IN  Return([t |-> "naclteam", bundle |-> bundle,
                signature |-> [t |-> "edsig", signer |-> keys.teamEdPrivate.id,
                               over |-> bundle]])

ChainpadTeamDecrypt(keys, cipher, skipValidation) ==
    LET isValid == NaclSignVerify(cipher.bundle, cipher.signature, keys.teamEdPublic)
        opened == SymDecrypt(cipher.bundle.sealed, [t |-> "box", to |-> keys.teamCurvePrivate.id])
    IN  IF cipher.t # "naclteam" THEN Throw("invalid message")
        ELSE IF ~skipValidation /\ (~isValid.ok \/ ~isValid.val) THEN Throw("Invalid signature")
        ELSE IF ~opened.ok THEN [Throw("failed to decrypt") EXCEPT !.decaps = 1]
        ELSE [Return([content |-> bytesToText(opened.val), author |-> cipher.bundle.author])
                 EXCEPT !.decaps = 1, !.verified = ~skipValidation,
                        !.under = IF skipValidation THEN Null ELSE keys.teamEdPublic]

\* Nacl.util.decodeBase64(keys[key]).length: -1 when the value is no base64
\* string and decoding throws.
NaclDecodedLength(k) ==
    IF k.t \in KeyTags
    THEN IF k.rep # "b64" THEN -1 ELSE IF k.t = "sigsec" THEN 64 ELSE 32
    ELSE -1

\* Nacl[keyType][lengthType] for the key named f: only the signing secret
\* key is 64 bytes long.
NaclExpectedLength(f) == IF f = "teamEdPrivate" THEN 64 ELSE 32

\* The required keys whose decoded length is not the expected one
NaclMalformed(keys) ==
    {n \in DOMAIN RequiredKeys :
        NaclDecodedLength(keys[RequiredKeys[n]]) # NaclExpectedLength(RequiredKeys[n])}

\* validateTeamKeys(keys) of the NaCl provider: the six keys are present, are
\* base64 and have the length of their kind.
NaclValidateTeamKeys(keys) == MissingKeys(keys) = {} /\ NaclMalformed(keys) = {}

\* The first key that the loop of validateTeamKeys finds malformed
NaclFirstMalformed(keys) ==
    RequiredKeys[CHOOSE n \in NaclMalformed(keys) : \A o \in NaclMalformed(keys) : n <= o]

\* createTeamEncryptor(keys) of the NaCl provider, the module being loaded;
\* the wrapper carries no capability flags.
NaclCreateTeamEncryptor(keys) ==
    IF NaclValidateTeamKeys(keys)
    THEN Return([t |-> "teamenc", scheme |-> "nacl", keys |-> keys,
                 can_encrypt |-> Undef, can_decrypt |-> Undef])
    ELSE IF MissingKeys(keys) # {}
    THEN InvalidKeys("Missing required team keys", MissingKeys(keys))
    ELSE InvalidKeys("Invalid base64 encoding for key", {NaclFirstMalformed(keys)})

\* encryptor.encrypt(plain)
NaclTeamEncrypt(encryptor, plain) == ChainpadTeamEncrypt(encryptor.keys, plain)

\* encryptor.decrypt(cipher, skipValidation)
NaclTeamDecrypt(encryptor, cipher, skipValidation) ==
    IF ~Truthy(cipher) THEN Throw("Cannot decrypt empty or null cipher")
    ELSE ChainpadTeamDecrypt(encryptor.keys, cipher, skipValidation)

(***************************************************************************)
(* The mailbox encryptor of a provider, by scheme.                         *)
(***************************************************************************)
MailboxEncrypt(scheme, keys, plain, recipientPublicKey) ==
    CASE scheme = "pqc" -> PqcMailboxEncrypt(keys, plain, recipientPublicKey, 0)
      [] scheme = "elgamal" -> ElGamalMailboxEncrypt(keys, plain, recipientPublicKey, EphemeralId)
      [] scheme = "nacl" -> NaclMailboxEncrypt(keys, plain, recipientPublicKey)

MailboxDecrypt(scheme, keys, message, senderPublicKey) ==
    CASE scheme = "pqc" -> PqcMailboxDecrypt(keys, message, senderPublicKey)
      [] scheme = "elgamal" -> ElGamalMailboxDecrypt(keys, message, senderPublicKey)
      [] scheme = "nacl" -> NaclMailboxDecrypt(keys, message, senderPublicKey)

\* The team encryptor of a provider.  The ElGamal provider has no
\* createTeamEncryptor: calling it is a TypeError.
ProviderCreateTeamEncryptor(scheme, keys) ==
    CASE scheme = "pqc" -> PqcCreateTeamEncryptor(keys)
      [] scheme = "nacl" -> NaclCreateTeamEncryptor(keys)
      [] scheme = "elgamal" ->
            Throw("this.cryptoProvider.createTeamEncryptor is not a function")

TeamEncrypt(encryptor, data) ==
    CASE encryptor.scheme = "pqc" -> PqcTeamEncrypt(encryptor, data)
      [] encryptor.scheme = "nacl" -> NaclTeamEncrypt(encryptor, data)

TeamDecrypt(encryptor, message, skipValidation) ==
    CASE encryptor.scheme = "pqc" -> PqcTeamDecrypt(encryptor, message, skipValidation)
      [] encryptor.scheme = "nacl" -> NaclTeamDecrypt(encryptor, message, skipValidation)

(***************************************************************************)
(* MultiRecipientCrypto (multiRecipientCrypto.js), the coordinator of one  *)
(* user.  Its state c:                                                     *)
(*   initialized       this.initialized                                    *)
(*   provInit          this.cryptoProvider.initialized                     *)
(*   mailboxEncryptor  this.mailboxEncryptor is set                        *)
(*   teamKeys          this.teamKeys                                       *)
(*   teamEncryptor     this.teamEncryptor                                  *)
(* An operation returns the pair of its result and the state it leaves.    *)
(* hk tells whether the user has its key pairs; can tells whether loading  *)
(* the chainpad_crypto module succeeds if this call has to load it.        *)
(***************************************************************************)
NewCoordinator ==
    [initialized |-> FALSE, provInit |-> FALSE, mailboxEncryptor |-> FALSE,
     teamKeys |-> Null, teamEncryptor |-> Null]

Pair(res, c) == [res |-> res, c |-> c]

\* K applied to the value v: names an intermediate result of an operation.
Bind(v, K(_)) == K(v)

LoadError == "Failed to load chainpad_crypto module"
NoKeysError == "Cannot read properties of null (reading 'publicKey')"

\* cryptoProvider.init(): the post-quantum provider needs no module.
ProviderInit(c, can) ==
    IF c.provInit \/ can
    THEN Pair(Return(Null), [c EXCEPT !.provInit = TRUE])
    ELSE Pair(Throw(LoadError), c)

\* init(): on failure the memoized promise is cleared and the caller rejected.
init(c, can) ==
    IF c.initialized THEN Pair(Return(Null), c)
    ELSE Bind(ProviderInit(c, can), LAMBDA p :
            IF p.res.ok THEN Pair(Return(Null), [p.c EXCEPT !.initialized = TRUE])
            ELSE Pair(Throw(p.res.err), c))

ensureInitialized(c, can) == IF c.initialized THEN Pair(Return(Null), c) ELSE init(c, can)

\* createMailboxEncryptor(): cached; the NaCl and ElGamal providers
\* initialize themselves before they build the encryptor.
createMailboxEncryptor(scheme, hk, c, can) ==
    IF c.mailboxEncryptor THEN Pair(Return(Null), c)
    ELSE IF ~hk THEN Pair(Throw(NoKeysError), c)
    ELSE Bind(IF scheme = "pqc" THEN Pair(Return(Null), c) ELSE ProviderInit(c, can),
              LAMBDA p :
                IF ~p.res.ok THEN Pair(Throw(p.res.err), c)
                ELSE Pair(Return(Null), [p.c EXCEPT !.mailboxEncryptor = TRUE]))

\* generateTeamKeys(): all six keys are the user's own key pairs.
generateTeamKeys(scheme, u, hk) ==
    IF hk THEN Return(TeamKeySet(u, u, KeyRep(scheme))) ELSE Throw(NoKeysError)

\* The rest of createTeamEncryptor once the keys are chosen: this.teamKeys
\* is assigned before the provider builds the encryptor, this.teamEncryptor
\* only when it has.
createTeamEncryptorWith(scheme, c, keys, can) ==
    Bind([c EXCEPT !.teamKeys = keys], LAMBDA c1 :
    Bind(IF scheme = "nacl" THEN ProviderInit(c1, can) ELSE Pair(Return(Null), c1), LAMBDA p :
        IF ~p.res.ok THEN Pair(Throw(p.res.err), c1)
        ELSE Bind(ProviderCreateTeamEncryptor(scheme, keys), LAMBDA made :
                IF ~made.ok THEN Pair(Throw(made.err), p.c)
                ELSE Pair(Return(made.val), [p.c EXCEPT !.teamEncryptor = made.val]))))

\* createTeamEncryptor(teamKeys)
createTeamEncryptor(scheme, u, hk, c, teamKeys, can) ==
    IF Truthy(c.teamEncryptor) /\ ~Truthy(teamKeys) THEN Pair(Return(c.teamEncryptor), c)
    ELSE IF Truthy(teamKeys) THEN createTeamEncryptorWith(scheme, c, teamKeys, can)
    ELSE IF Truthy(c.teamKeys) THEN createTeamEncryptorWith(scheme, c, c.teamKeys, can)
    ELSE Bind(generateTeamKeys(scheme, u, hk), LAMBDA generated :
            IF ~generated.ok THEN Pair(Throw(generated.err), c)
            ELSE createTeamEncryptorWith(scheme, c, generated.val, can))

\* setTeamKeys(keys)
setTeamKeys(c, keys) ==
    IF ~Truthy(keys) THEN c ELSE [c EXCEPT !.teamKeys = keys, !.teamEncryptor = Null]

\* The outcome r of a call, with whether the encryptor's encrypt was invoked
Invoked(r, invoked) == r @@ [invoked |-> invoked]

\* An encryptForTeam that calls encrypt whatever the encryptor reports
encryptWithAnyTeamEncryptor(encryptor, data) ==
    Bind(TeamEncrypt(encryptor, data), LAMBDA encrypted :
        Invoked(IF ~encrypted.ok THEN Throw(encrypted.err) ELSE Return(encrypted.val), TRUE))

\* encryptForTeam once createTeamEncryptor has returned the encryptor
encryptWithTeamEncryptor(encryptor, data) ==
    IF encryptor.can_encrypt = JsFalse
    THEN Invoked(Throw("Team encryptor does not have encryption capability with current keys"),
                 FALSE)
    ELSE Bind(TeamEncrypt(encryptor, data), LAMBDA encrypted :
            Invoked(IF ~encrypted.ok THEN Throw(encrypted.err) ELSE Return(encrypted.val),
                    TRUE))

\* The rest of encryptForTeam once this.teamKeys is set
encryptForTeamWith(scheme, u, hk, c1, data, can) ==
    Bind(createTeamEncryptor(scheme, u, hk, c1, c1.teamKeys, can), LAMBDA made :
        IF ~made.res.ok THEN Pair(Invoked(Throw(made.res.err), FALSE), made.c)
        ELSE Pair(encryptWithTeamEncryptor(made.res.val, data), made.c))

\* encryptForTeam(data)
encryptForTeam(scheme, u, hk, c, data, can) ==
    IF Truthy(c.teamKeys) THEN encryptForTeamWith(scheme, u, hk, c, data, can)
    ELSE Bind(generateTeamKeys(scheme, u, hk), LAMBDA generated :
            IF ~generated.ok THEN Pair(Invoked(Throw(generated.err), FALSE), c)
            ELSE encryptForTeamWith(scheme, u, hk, [c EXCEPT !.teamKeys = generated.val],
                                    data, can))

\* A value that has a slice method: a string or a typed array.
HasSlice(v) == v.t \in {"str", "b64", "u8", "u8json"} \/ v.t \in KeyTags

EmptyVersions == [i \in {} |-> Null]

\* The outcome r of a call, with the number of calls of the encryptor's
\* encrypt that it has made
Calls(r, n) == r @@ [calls |-> n]

\* encryptedVersions[recipientKey] = message
StoreVersion(encryptedVersions, recipientKey, message) ==
    [k \in DOMAIN encryptedVersions \cup {recipientKey.id} |->
        IF k = recipientKey.id THEN message ELSE encryptedVersions[k]]

\* The loop of encryptForMailbox over recipientPublicKeys[i..]: a message
\* that was encrypted is stored under its recipient key; when encryption
\* fails the catch block evaluates recipientKey.slice(-8) for its log line.
RECURSIVE encryptLoop(_, _, _, _, _, _)
encryptLoop(scheme, keys, data, recipientPublicKeys, i, encryptedVersions) ==
    IF i > Len(recipientPublicKeys)
    THEN Calls(Return([t |-> "map", m |-> encryptedVersions]), i - 1)
    ELSE Bind(MailboxEncrypt(scheme, keys, data, recipientPublicKeys[i]), LAMBDA message :
            IF message.ok
            THEN encryptLoop(scheme, keys, data, recipientPublicKeys, i + 1,
                             StoreVersion(encryptedVersions, recipientPublicKeys[i], message.val))
            ELSE IF HasSlice(recipientPublicKeys[i])
            THEN encryptLoop(scheme, keys, data, recipientPublicKeys, i + 1, encryptedVersions)
            ELSE Calls(Throw("Cannot read properties of null (reading 'slice')"), i))

\* encryptForMailbox(data, recipientPublicKeys)
encryptForMailbox(scheme, u, hk, c, data, recipientPublicKeys, can) ==
    Bind(createMailboxEncryptor(scheme, hk, c, can), LAMBDA made :
        IF ~made.res.ok THEN Pair(Calls(Throw(made.res.err), 0), made.c)
        ELSE Pair(encryptLoop(scheme, MailboxKeys(scheme, u), data, recipientPublicKeys,
                              1, EmptyVersions),
                  made.c))

\* encryptForMultipleRecipients(data, recipientPublicKeys, encryptorType):
\* the result carries teamEncrypted or encryptedVersions; errors are rethrown.
encryptForMultipleRecipients(scheme, u, hk, c, data, recipientPublicKeys, encryptorType, can) ==
    Bind(ensureInitialized(c, can), LAMBDA i :
        IF ~i.res.ok THEN Pair(Calls(Throw(i.res.err), 0), i.c)
        ELSE IF encryptorType = "team"
        THEN Bind(encryptForTeam(scheme, u, hk, i.c, data, can), LAMBDA t :
                Pair(Calls(IF t.res.ok
                           THEN Return([teamEncrypted |-> t.res.val,
                                        encryptedVersions |-> Undef])
                           ELSE Throw(t.res.err),
                           IF t.res.invoked THEN 1 ELSE 0),
                     t.c))
        ELSE Bind(encryptForMailbox(scheme, u, hk, i.c, data, recipientPublicKeys, can),
                  LAMBDA m :
                    IF m.res.ok
                    THEN Pair(Calls(Return([teamEncrypted |-> Undef,
                                            encryptedVersions |-> m.res.val]),
                                    m.res.calls),
                              m.c)
                    ELSE m))

\* The block createSharedBlock returns: e is the result of
\* encryptForMultipleRecipients, c the state it left.
SharedBlock(scheme, u, data, encryptorType, e, c) ==
    [t |-> "block", userId |-> u, blockData |-> data,
     signPublicKey |-> generateDSAKeyPair(scheme, u).publicKey,
     scheme |-> scheme, encryptorType |-> encryptorType,
     encryptedVersions |-> IF encryptorType = "team" THEN Undef ELSE e.encryptedVersions,
     teamEncrypted |-> IF encryptorType = "team" THEN e.teamEncrypted ELSE Undef,
     teamKeys |-> IF encryptorType = "team" THEN c.teamKeys ELSE Undef]

\* createSharedBlock(data, recipientPublicKeys, encryptorType)
createSharedBlock(scheme, u, hk, c, data, recipientPublicKeys, encryptorType, can) ==
    Bind(ensureInitialized(c, can), LAMBDA i :
        IF ~i.res.ok THEN Pair(Throw(i.res.err), i.c)
        ELSE IF ~hk THEN Pair(Throw(NoKeysError), i.c)
        ELSE Bind(IF encryptorType = "team" /\ ~Truthy(i.c.teamKeys)
                  THEN [i.c EXCEPT !.teamKeys = generateTeamKeys(scheme, u, hk).val]
                  ELSE i.c,
                  LAMBDA c1 :
             Bind(encryptForMultipleRecipients(scheme, u, hk, c1, data, recipientPublicKeys,
                                               encryptorType, can),
                  LAMBDA e :
                    IF ~e.res.ok THEN e
                    ELSE Pair(Return(SharedBlock(scheme, u, data, encryptorType,
                                                 e.res.val, e.c)),
                              e.c))))

\* The number of entries a createSharedBlock call with outcome r has pushed
\* on this.user.stats: _createStats pushes one when
\* encryptForMultipleRecipients returns, and none when it throws.
createStats(r) == IF r.res.ok THEN 1 ELSE 0

\* What decryptTeamBlock returns for the result of the encryptor's decrypt
teamBlockResult(result, c) ==
    IF ~result.ok THEN Pair(result, c)
    ELSE IF Truthy(result.val.content)
    THEN Pair([result EXCEPT !.val = result.val.content], c)
    ELSE IF Truthy(result.val.author)
    THEN Pair([result EXCEPT !.val = JsonText(result.val)], c)
    ELSE Pair(Throw("Team decryption succeeded but returned invalid content structure"), c)

\* A decryptTeamBlock that lets the coordinator generate team keys when
\* neither the block nor the coordinator has any
decryptTeamBlockGeneratingKeys(scheme, u, hk, c, block, can) ==
    IF ~Truthy(block.teamEncrypted)
    THEN Pair(Throw("Invalid team block structure: missing teamEncrypted property"), c)
    ELSE Bind(IF Truthy(block.teamKeys) THEN setTeamKeys(c, block.teamKeys) ELSE c, LAMBDA c1 :
         Bind(createTeamEncryptor(scheme, u, hk, c1, c1.teamKeys, can), LAMBDA made :
            IF ~made.res.ok THEN Pair(Throw(made.res.err), made.c)
            ELSE IF made.res.val.can_decrypt = JsFalse
            THEN Pair(Throw("Team encryptor does not have decryption capability with current keys"),
                      made.c)
            ELSE teamBlockResult(TeamDecrypt(made.res.val, block.teamEncrypted, FALSE),
                                 made.c)))

\* A decryptTeamBlock that keeps the coordinator's own team keys when it
\* has any and adopts the keys of the block only when it has none
decryptTeamBlockOwnKeysFirst(scheme, u, hk, c, block, can) ==
    IF ~Truthy(block.teamEncrypted)
    THEN Pair(Throw("Invalid team block structure: missing teamEncrypted property"), c)
    ELSE IF ~Truthy(block.teamKeys) /\ ~Truthy(c.teamKeys)
    THEN Pair(Throw("No team keys available for decryption"), c)
    ELSE Bind(IF ~Truthy(c.teamKeys) THEN setTeamKeys(c, block.teamKeys) ELSE c, LAMBDA c1 :
         Bind(createTeamEncryptor(scheme, u, hk, c1, c1.teamKeys, can), LAMBDA made :
            IF ~made.res.ok THEN Pair(Throw(made.res.err), made.c)
            ELSE IF made.res.val.can_decrypt = JsFalse
            THEN Pair(Throw("Team encryptor does not have decryption capability with current keys"),
                      made.c)
            ELSE teamBlockResult(TeamDecrypt(made.res.val, block.teamEncrypted, FALSE),
                                 made.c)))

\* A decryptTeamBlock that tells the encryptor to skip the signature check
decryptTeamBlockUnchecked(scheme, u, hk, c, block, can) ==
    IF ~Truthy(block.teamEncrypted)
    THEN Pair(Throw("Invalid team block structure: missing teamEncrypted property"), c)
    ELSE IF ~Truthy(block.teamKeys) /\ ~Truthy(c.teamKeys)
    THEN Pair(Throw("No team keys available for decryption"), c)
    ELSE Bind(IF Truthy(block.teamKeys) THEN setTeamKeys(c, block.teamKeys) ELSE c, LAMBDA c1 :
         Bind(createTeamEncryptor(scheme, u, hk, c1, c1.teamKeys, can), LAMBDA made :
            IF ~made.res.ok THEN Pair(Throw(made.res.err), made.c)
            ELSE teamBlockResult(TeamDecrypt(made.res.val, block.teamEncrypted, TRUE),
                                 made.c)))

\* decryptTeamBlock(block): the keys of the block are adopted when it
\* carries any; the signature check is never skipped.
decryptTeamBlock(scheme, u, hk, c, block, can) ==
    IF ~Truthy(block.teamEncrypted)
    THEN Pair(Throw("Invalid team block structure: missing teamEncrypted property"), c)
    ELSE IF ~Truthy(block.teamKeys) /\ ~Truthy(c.teamKeys)
    THEN Pair(Throw("No team keys available for decryption"), c)
    ELSE Bind(IF Truthy(block.teamKeys) THEN setTeamKeys(c, block.teamKeys) ELSE c, LAMBDA c1 :
         Bind(createTeamEncryptor(scheme, u, hk, c1, c1.teamKeys, can), LAMBDA made :
            IF ~made.res.ok THEN Pair(Throw(made.res.err), made.c)
            ELSE IF made.res.val.can_decrypt = JsFalse
            THEN Pair(Throw("Team encryptor does not have decryption capability with current keys"),
                      made.c)
            ELSE teamBlockResult(TeamDecrypt(made.res.val, block.teamEncrypted, FALSE),
                                 made.c)))

\* A decryptMailboxBlock that passes block.signPublicKey on without
\* requiring it
decryptMailboxBlockAnySignKey(scheme, u, hk, c, block, can) ==
    IF ~Truthy(block.encryptedVersions)
    THEN Pair(Throw("Invalid mailbox block structure: missing encryptedVersions property"), c)
    ELSE IF ~hk THEN Pair(Throw(NoKeysError), c)
    ELSE IF u \notin DOMAIN block.encryptedVersions.m
    THEN Pair(Throw("No encrypted version found for this user"), c)
    ELSE Bind(createMailboxEncryptor(scheme, hk, c, can), LAMBDA made :
            IF ~made.res.ok THEN Pair(Throw(made.res.err), made.c)
            ELSE Pair(MailboxDecrypt(scheme, MailboxKeys(scheme, u),
                                     block.encryptedVersions.m[u], block.signPublicKey),
                      made.c))

\* A decryptMailboxBlock that falls back to some version of the block when
\* there is none for the user
decryptMailboxBlockAnyVersion(scheme, u, hk, c, block, can) ==
    IF ~Truthy(block.encryptedVersions)
    THEN Pair(Throw("Invalid mailbox block structure: missing encryptedVersions property"), c)
    ELSE IF ~hk THEN Pair(Throw(NoKeysError), c)
    ELSE IF DOMAIN block.encryptedVersions.m = {}
    THEN Pair(Throw("No encrypted version found for this user"), c)
    ELSE Bind(createMailboxEncryptor(scheme, hk, c, can), LAMBDA made :
            IF ~made.res.ok THEN Pair(Throw(made.res.err), made.c)
            ELSE IF ~Truthy(block.signPublicKey)
            THEN Pair(Throw("Missing signature validation key in block"), made.c)
            ELSE Pair(MailboxDecrypt(scheme, MailboxKeys(scheme, u),
                                     block.encryptedVersions.m[
                                         IF u \in DOMAIN block.encryptedVersions.m THEN u
                                         ELSE CHOOSE k \in DOMAIN block.encryptedVersions.m : TRUE],
                                     block.signPublicKey),
                      made.c))

\* decryptMailboxBlock(block)
decryptMailboxBlock(scheme, u, hk, c, block, can) ==
    IF ~Truthy(block.encryptedVersions)
    THEN Pair(Throw("Invalid mailbox block structure: missing encryptedVersions property"), c)
    ELSE IF ~hk THEN Pair(Throw(NoKeysError), c)
    ELSE IF u \notin DOMAIN block.encryptedVersions.m
    THEN Pair(Throw("No encrypted version found for this user"), c)
    ELSE Bind(createMailboxEncryptor(scheme, hk, c, can), LAMBDA made :
            IF ~made.res.ok THEN Pair(Throw(made.res.err), made.c)
            ELSE IF ~Truthy(block.signPublicKey)
            THEN Pair(Throw("Missing signature validation key in block"), made.c)
            ELSE Pair(MailboxDecrypt(scheme, MailboxKeys(scheme, u),
                                     block.encryptedVersions.m[u], block.signPublicKey),
                      made.c))

ErrMsg(m) == [t |-> "err", m |-> m]

\* The result object of decryptSharedBlock for the outcome d of the try
\* block, with the fields of the decryption made (verified, under, decaps),
\* the number of entries pushed on this.user.stats (one, at the end of the
\* try block) and the state the call leaves.
sharedBlockResult(d) ==
    Bind(IF d.res.ok THEN d.res.val ELSE Null, LAMBDA decryptedData :
    Bind(IF d.res.ok THEN Null ELSE ErrMsg(d.res.err), LAMBDA error :
    Bind(Truthy(decryptedData) /\ error = Null, LAMBDA valid :
        [threw |-> FALSE, valid |-> valid, signatureValid |-> valid,
         decryptionValid |-> valid, decryptedData |-> decryptedData,
         error |-> error, verified |-> d.res.verified, under |-> d.res.under,
         decaps |-> d.res.decaps, pushed |-> IF d.res.ok THEN 1 ELSE 0, c |-> d.c])))

\* decryptSharedBlock(block): threw tells that the call itself rejected,
\* which it does when ensureInitialized does, outside the try block.
decryptSharedBlock(scheme, u, hk, c, block, can) ==
    Bind(ensureInitialized(c, can), LAMBDA i :
        IF ~i.res.ok
        THEN [threw |-> TRUE, valid |-> FALSE, signatureValid |-> FALSE,
              decryptionValid |-> FALSE, decryptedData |-> Null,
              error |-> ErrMsg(i.res.err), verified |-> FALSE, under |-> Null,
              decaps |-> 0, pushed |-> 0, c |-> i.c]
        ELSE IF ~Truthy(block) THEN sharedBlockResult(Pair(Throw("Block is undefined"), i.c))
        ELSE IF block.encryptorType = "team"
        THEN sharedBlockResult(decryptTeamBlock(scheme, u, hk, i.c, block, can))
        ELSE sharedBlockResult(decryptMailboxBlock(scheme, u, hk, i.c, block, can)))

(***************************************************************************)
(* The values of the variables of a part of the model that is not running. *)
(***************************************************************************)
MailboxIdle == [phase |-> "idle"]
TeamIdle == [phase |-> "idle"]
IniIdle == [phase |-> "idle"]
ProvIdle == [phase |-> "idle"]
BcastIdle == [phase |-> "idle"]
SessIdle == [phase |-> "idle"]
\* No message size has been tracked
NoSizes == [u \in Users |-> <<>>]

OthersIdle ==
    /\ ini = IniIdle /\ prov = ProvIdle /\ bcast = BcastIdle /\ sess = SessIdle
    /\ messageSizes = NoSizes
NoCall == [op |-> "none"]

CoordIdle ==
    /\ cryptoScheme = "pqc" /\ moduleLoaded = FALSE
    /\ hasKeys = [u \in Users |-> FALSE]
    /\ coord = [u \in Users |-> NewCoordinator]
    /\ sharedBlock = Null /\ created = 0 /\ forged = FALSE /\ last = NoCall

(***************************************************************************)
(* Provider level, mailbox: a sender's encryptor encrypts a plaintext for  *)
(* a recipient, one field of the message may be replaced in transit, and   *)
(* some user's encryptor decrypts it with some sender-key argument.        *)
(***************************************************************************)
NoResult == Throw("")

MailboxInputs ==
    [phase : {"input"}, scheme : Schemes, plain : Plaintexts, sender : Users,
     rcpt : Users, msg : {Null}, tamper : {"none"}, dec : {0}, keyArg : {Null},
     res : {NoResult}]

\* The values a field of a post-quantum mailbox message can be replaced by.
TamperTexts == StringsUpTo(MaxTamperLen)

EncryptedDataValues ==
    {[t |-> "b64", canon |-> c,
      raw |-> SymEncrypt(textToBytes(Str(p)), [t |-> "ss", id |-> i, r |-> 0, rej |-> 0])] :
        c \in BOOLEAN, p \in TamperTexts, i \in Users}
    \cup {encodeBase64(Garbage)}

CiphertextValues ==
    {[t |-> "kemct", id |-> i, r |-> 0, flip |-> f] : i \in Users, f \in BOOLEAN}
    \cup {Garbage}

SignatureValues ==
    {[t |-> "sig", signer |-> i, body |-> textToBytes(Str(p)), flip |-> f] :
        i \in Users, p \in TamperTexts, f \in BOOLEAN}
    \cup {Garbage}

\* The sender-key arguments decrypt is called with
SenderKeyArgs(scheme) ==
    {SigPub(i, KeyRep(scheme)) : i \in Users} \cup {Null, Undef, EmptyStr}

InitMailbox == mbox \in MailboxInputs /\ team = TeamIdle /\ CoordIdle /\ OthersIdle

MbEncrypt ==
    /\ mbox.phase = "input"
    /\ LET enc == MailboxEncrypt(mbox.scheme, MailboxKeys(mbox.scheme, mbox.sender),
                                 Str(mbox.plain), KemPub(mbox.rcpt, KeyRep(mbox.scheme)))
       IN  /\ enc.ok
           /\ mbox' = [mbox EXCEPT !.phase = "sent", !.msg = enc.val]
    /\ UNCHANGED notMbox

MbReplaceEncryptedData(v) ==
    /\ mbox.phase = "sent" /\ mbox.tamper = "none" /\ mbox.msg.t = "pqcmsg"
    /\ v # mbox.msg.encryptedData
    /\ mbox' = [mbox EXCEPT !.tamper = "encryptedData", !.msg.encryptedData = v]
    /\ UNCHANGED notMbox

MbReplaceCiphertext(v) ==
    /\ mbox.phase = "sent" /\ mbox.tamper = "none" /\ mbox.msg.t = "pqcmsg"
    /\ v # mbox.msg.ciphertext
    /\ mbox' = [mbox EXCEPT !.tamper = "ciphertext", !.msg.ciphertext = v]
    /\ UNCHANGED notMbox

MbReplaceSignature(v) ==
    /\ mbox.phase = "sent" /\ mbox.tamper = "none" /\ mbox.msg.t = "pqcmsg"
    /\ v # mbox.msg.signature
    /\ mbox' = [mbox EXCEPT !.tamper = "signature", !.msg.signature = v]
    /\ UNCHANGED notMbox

MbDecrypt(d, keyArg) ==
    /\ mbox.phase = "sent"
    /\ mbox' = [mbox EXCEPT
                  !.phase = "done", !.dec = d, !.keyArg = keyArg,
                  !.res = MailboxDecrypt(mbox.scheme, MailboxKeys(mbox.scheme, d),
                                         mbox.msg, keyArg)]
    /\ UNCHANGED notMbox

NextMailbox ==
    \/ MbEncrypt
    \/ \E v \in EncryptedDataValues : MbReplaceEncryptedData(v)
    \/ \E v \in CiphertextValues : MbReplaceCiphertext(v)
    \/ \E v \in SignatureValues : MbReplaceSignature(v)
    \/ \E d \in Users : \E k \in SenderKeyArgs(mbox.scheme) : MbDecrypt(d, k)

SpecMailbox == InitMailbox /\ [][NextMailbox]_vars

\* The untampered message, decrypted by its recipient with the sender's
\* signature public key.
MbHonestDone ==
    /\ mbox.phase = "done" /\ mbox.tamper = "none"
    /\ mbox.dec = mbox.rcpt
    /\ mbox.keyArg = SigPub(mbox.sender, KeyRep(mbox.scheme))

\* C1: decrypt(encrypt(P, recipientPub), senderSigPub) on the recipient's
\* encryptor returns exactly P, for every string P.
C1_MailboxRoundTrip ==
    MbHonestDone => mbox.res.ok /\ mbox.res.val = Str(mbox.plain)


\* C3: a provider's mailbox decrypt returns a plaintext only if the
\* signature was checked and verified under the senderSigPub argument;
\* with a null, undefined or empty argument the call fails.
C3_NoUnverifiedPlaintext ==
    (mbox.phase = "done" /\ mbox.res.ok) =>
        (mbox.res.verified /\ mbox.res.under = mbox.keyArg)

\* A post-quantum message with one field replaced, decrypted by its
\* recipient with the sender's signature public key.
MbTamperedDone ==
    /\ mbox.phase = "done" /\ mbox.scheme = "pqc" /\ mbox.tamper # "none"
    /\ mbox.dec = mbox.rcpt
    /\ mbox.keyArg = SigPub(mbox.sender, KeyRep(mbox.scheme))

\* C5: replacing encryptedData, ciphertext or signature of a mailbox message
\* by a different value makes the recipient's decrypt fail.
C5_TamperDetected == MbTamperedDone => ~mbox.res.ok

\* The decryptor's KEM secret key is not the one the message was
\* encapsulated against.
MbWrongKey ==
    IF mbox.scheme = "pqc"
    THEN mbox.msg.ciphertext.t = "kemct" /\ mbox.msg.ciphertext.id # mbox.dec
    ELSE mbox.rcpt # mbox.dec

\* C6: decrypting a mailbox message with an encryptor whose KEM secret key
\* does not correspond to the public key of the encapsulation fails, whatever
\* the sender-key argument; no plaintext is returned.
C6_WrongKeyRejected ==
    (mbox.phase = "done" /\ MbWrongKey) => (~mbox.res.ok /\ mbox.res.val = Null)

C6_Witness ==
    /\ mbox.phase = "done" /\ MbWrongKey /\ mbox.tamper = "none"
    /\ mbox.keyArg = SigPub(mbox.sender, KeyRep(mbox.scheme))
    /\ mbox.res.decaps = 1 /\ ~mbox.res.ok


(***************************************************************************)
(* Provider level, team (post-quantum provider): a member's team encryptor *)
(* encrypts a plaintext under a TeamKeySet and an encryptor built from     *)
(* some TeamKeySet decrypts the envelope.                                  *)
(***************************************************************************)
TeamInputs ==
    [phase : {"input"}, plain : Plaintexts, g : Users, author : Users,
     msg : {Null}, sent : {Null}, tamper : {"none"},
     dg : {0}, d : {0}, skip : {FALSE}, res : {NoResult}]

InitTeam == team \in TeamInputs /\ mbox = MailboxIdle /\ CoordIdle /\ OthersIdle

TmEncrypt ==
    /\ team.phase = "input"
    /\ LET encryptor == PqcCreateTeamEncryptor(TeamKeySet(team.g, team.author, "u8"))
           enc == PqcTeamEncrypt(encryptor.val, Str(team.plain))
       IN  /\ encryptor.ok /\ enc.ok
           /\ team' = [team EXCEPT !.phase = "sent", !.msg = enc.val, !.sent = enc.val]
    /\ UNCHANGED notTeam

\* Another base64 text of the same bytes
Reencoded(v) == [v EXCEPT !.canon = FALSE]

\* The fields of the outer bundle
OuterFields == {"encryptedData", "ciphertext", "ephemeralPublicKey"}

\* The fields of the envelope that travel with the sealed content
EnvelopeFields == OuterFields \cup {"signature"}

\* The values a field of the envelope can be replaced by in transit: another
\* encoding of its bytes, the encoding of other bytes, and for the
\* ephemeral key another key or none
TamperValues(message, field) ==
    IF message = Null THEN {} ELSE
    CASE field = "encryptedData" ->
            {Reencoded(message.outerBundle.encryptedData), encodeBase64(Garbage)}
      [] field = "ciphertext" ->
            {Reencoded(message.outerBundle.ciphertext), encodeBase64(Garbage),
             encodeBase64([message.outerBundle.ciphertext.raw EXCEPT !.flip = TRUE])}
      [] field = "ephemeralPublicKey" ->
            {KemPub(i, "u8") : i \in Users} \cup {Null}
      [] field = "signature" ->
            {Reencoded(message.signature), encodeBase64(Garbage),
             encodeBase64([message.signature.raw EXCEPT !.flip = TRUE])}

\* In transit the field of the envelope is replaced by the value v
TmReplace(field, v) ==
    /\ team.phase = "sent" /\ team.tamper = "none"
    /\ v \in TamperValues(team.msg, field)
    /\ team' = [team EXCEPT
                  !.tamper = field,
                  !.msg = IF field = "signature" THEN [team.msg EXCEPT !.signature = v]
                          ELSE [team.msg EXCEPT !.outerBundle[field] = v]]
    /\ UNCHANGED notTeam

TmDecrypt(dg, d, skip) ==
    /\ team.phase = "sent"
    /\ LET encryptor == PqcCreateTeamEncryptor(TeamKeySet(dg, d, "u8"))
       IN  /\ encryptor.ok
           /\ team' = [team EXCEPT
                         !.phase = "done", !.dg = dg, !.d = d, !.skip = skip,
                         !.res = PqcTeamDecrypt(encryptor.val, team.msg, skip)]
    /\ UNCHANGED notTeam

NextTeam ==
    \/ TmEncrypt
    \/ \E field \in EnvelopeFields,
          v \in UNION {TamperValues(team.msg, f) : f \in EnvelopeFields} :
          TmReplace(field, v)
    \/ \E dg \in Users, d \in Users, skip \in BOOLEAN : TmDecrypt(dg, d, skip)

SpecTeam == InitTeam /\ [][NextTeam]_vars

\* The envelope decrypted under the TeamKeySet it was encrypted under, with
\* the signature check enabled.
TmHonestDone ==
    /\ team.phase = "done" /\ team.dg = team.g /\ team.d = team.author
    /\ ~team.skip

\* C2: teamDecrypt(teamEncrypt(P, K), K) with the signature check enabled
\* returns {content: P, author: K.myCurvePublic}.
C2_TeamRoundTrip ==
    TmHonestDone =>
        /\ team.res.ok
        /\ team.res.val = [content |-> Str(team.plain),
                           author |-> TeamKeySet(team.g, team.author, "u8").myCurvePublic]


\* The key set of the encryptor that decrypted
TmKeys == TeamKeySet(team.dg, team.d, "u8")

\* teamDecrypt has run with the signature check enabled
TmCheckedDone == team.phase = "done" /\ ~team.skip

\* The signature of the envelope verifies over its outer bundle under the
\* decryptor's team signature public key
TmSignatureValid == teamVerify(team.msg, TmKeys).ok /\ teamVerify(team.msg, TmKeys).val

\* The steps of a team decrypt that succeeds
TmFullTrace ==
    <<VerifyStep(TmKeys.teamEdPublic),
      DecapsStep("outer", TmKeys.teamCurvePrivate), DecryptStep("outer"),
      DecapsStep("inner", TmKeys.teamCurvePrivate), DecryptStep("inner")>>

\* C26: with the signature check enabled teamDecrypt verifies the signature
\* before it decapsulates or decrypts anything; when the verification fails
\* there is no decapsulation and no content; when the call succeeds the
\* outer layer was decapsulated and decrypted before the inner layer, both
\* with the team KEM secret key.
C26_TeamDecryptOrder ==
    TmCheckedDone =>
        /\ \A i \in DOMAIN team.res.trace :
              team.res.trace[i].op # "verify" => (i > 1 /\ team.res.trace[1].op = "verify")
        /\ ~TmSignatureValid =>
              /\ ~team.res.ok /\ team.res.val = Null /\ team.res.decaps = 0
              /\ \A i \in DOMAIN team.res.trace : team.res.trace[i].op = "verify"
        /\ team.res.ok => (team.res.trace = TmFullTrace /\ team.res.decaps = 2)

\* An envelope whose signature does not verify was rejected after the
\* verification alone.
C26_Witness ==
    /\ TmCheckedDone /\ ~TmSignatureValid /\ ~team.res.ok
    /\ team.res.trace = <<VerifyStep(TmKeys.teamEdPublic)>>

\* An envelope was decrypted in five steps.
C26_FullTraceReached == TmCheckedDone /\ team.res.ok /\ team.res.trace = TmFullTrace

\* An envelope changed in transit was decrypted, with the signature check
\* enabled, under the key set it was encrypted under.
TmTamperedDone ==
    /\ TmCheckedDone /\ team.tamper # "none"
    /\ team.dg = team.g /\ team.d = team.author

\* C27: changing encryptedData, ciphertext or ephemeralPublicKey of the
\* outer bundle, or the signature, of a team envelope makes teamDecrypt with
\* the signature check enabled fail, and it returns no other content.
C27_TeamTamperDetected == TmTamperedDone => ~team.res.ok

\* No team decrypt of a changed envelope returns a content other than the
\* plaintext.
C27_NoOtherContent ==
    (TmTamperedDone /\ team.res.ok) => team.res.val.content = bytesToText(textToBytes(Str(team.plain)))

\* The outcome of decrypting the envelope as it was sent, by the same
\* encryptor with the same skipValidation
TmOutcomeOfSent ==
    PqcTeamDecrypt(PqcCreateTeamEncryptor(TmKeys).val, team.sent, team.skip)

\* An envelope was decrypted that differs from the one sent only in its
\* ephemeral public key
TmEphemeralChanged == team.phase = "done" /\ team.tamper = "ephemeralPublicKey"

DataTexts == StringsUpTo(MaxDataLen)

\* The values a recipient list is made of: the users' KEM public keys, null,
\* a number, and a string that is no key.
RecipientKeyValues(s) == {KemPub(i, KeyRep(s)) : i \in Users} \cup {Null, Num, BadKey}

RECURSIVE ListsUpTo(_, _)
ListsUpTo(S, n) ==
    IF n = 0 THEN {<<>>}
    ELSE LET shorter == ListsUpTo(S, n - 1)
         IN  shorter \cup {Append(l, x) : l \in {y \in shorter : Len(y) = n - 1}, x \in S}

RecipientLists(s) == ListsUpTo(RecipientKeyValues(s), MaxRecipients)

\* Whether the module loads if this call has to load it
CanLoad(loadOk) == cryptoScheme = "pqc" \/ moduleLoaded \/ loadOk

\* The outcomes of loading the module that a call can meet: a module that
\* is loaded stays loaded, and the post-quantum provider loads none.
LoadOutcomes == IF cryptoScheme = "pqc" \/ moduleLoaded THEN {TRUE} ELSE BOOLEAN

\* The module is loaded once a NaCl or ElGamal provider has initialized.
LoadedAfter(c) == moduleLoaded \/ (cryptoScheme # "pqc" /\ c.provInit)

InitCoord ==
    /\ cryptoScheme \in Schemes /\ moduleLoaded = FALSE
    /\ hasKeys = [u \in Users |-> FALSE]
    /\ coord = [u \in Users |-> NewCoordinator]
    /\ sharedBlock = Null /\ created = 0 /\ forged = FALSE /\ last = NoCall
    /\ mbox = MailboxIdle /\ team = TeamIdle /\ OthersIdle

\* The participant's init(): its provider generates the KEM and the
\* signature key pair, which needs the module for NaCl and ElGamal.
UserInit(u) ==
    /\ ~hasKeys[u]
    /\ hasKeys' = [hasKeys EXCEPT ![u] = TRUE]
    /\ moduleLoaded' = (moduleLoaded \/ cryptoScheme # "pqc")
    /\ last' = NoCall
    /\ UNCHANGED <<cryptoScheme, coord, sharedBlock, created, forged, notCoord>>

SetTeamKeys(u, g) ==
    /\ hasKeys[g]
    /\ coord' = [coord EXCEPT ![u] = setTeamKeys(coord[u], TeamKeySet(g, g, KeyRep(cryptoScheme)))]
    /\ last' = NoCall
    /\ UNCHANGED <<cryptoScheme, moduleLoaded, hasKeys, sharedBlock, created, forged, notCoord>>

EncryptForMailbox(u, data, rcpts, loadOk) ==
    \E r \in {encryptForMailbox(cryptoScheme, u, hasKeys[u], coord[u], Str(data), rcpts,
                               CanLoad(loadOk))} :
        /\ coord' = [coord EXCEPT ![u] = r.c]
        /\ moduleLoaded' = LoadedAfter(r.c)
        /\ last' = [op |-> "encryptForMailbox", user |-> u, data |-> data, rcpts |-> rcpts,
                    encryptor |-> r.c.mailboxEncryptor, threw |-> ~r.res.ok,
                    versions |-> r.res.val, calls |-> r.res.calls]
        /\ UNCHANGED <<cryptoScheme, hasKeys, sharedBlock, created, forged, notCoord>>

CreateSharedBlock(u, data, rcpts, encryptorType, loadOk) ==
    /\ hasKeys[u] /\ created < MaxBlocks
    /\ \E r \in {createSharedBlock(cryptoScheme, u, hasKeys[u], coord[u], Str(data), rcpts,
                                  encryptorType, CanLoad(loadOk))} :
        /\ coord' = [coord EXCEPT ![u] = r.c]
        /\ moduleLoaded' = LoadedAfter(r.c)
        /\ sharedBlock' = IF r.res.ok THEN r.res.val ELSE sharedBlock
        /\ created' = IF r.res.ok THEN created + 1 ELSE created
        /\ forged' = IF r.res.ok THEN FALSE ELSE forged
        /\ last' = [op |-> "createSharedBlock", user |-> u, threw |-> ~r.res.ok,
                    pushed |-> createStats(r)]
        /\ UNCHANGED <<cryptoScheme, hasKeys, notCoord>>

\* In transit a field of the block is removed
ForgeDrop(f) ==
    /\ sharedBlock # Null /\ ~forged /\ sharedBlock[f] # Undef
    /\ sharedBlock' = [sharedBlock EXCEPT ![f] = Undef]
    /\ forged' = TRUE
    /\ last' = NoCall
    /\ UNCHANGED <<cryptoScheme, moduleLoaded, hasKeys, coord, created, notCoord>>

\* In transit the block is made to name another signature public key
ForgeSignKey(v) ==
    /\ sharedBlock # Null /\ ~forged /\ sharedBlock.signPublicKey # v
    /\ sharedBlock' = [sharedBlock EXCEPT !.signPublicKey = v]
    /\ forged' = TRUE
    /\ last' = NoCall
    /\ UNCHANGED <<cryptoScheme, moduleLoaded, hasKeys, coord, created, notCoord>>

DecryptSharedBlock(u, loadOk) ==
    \E r \in {decryptSharedBlock(cryptoScheme, u, hasKeys[u], coord[u], sharedBlock,
                                CanLoad(loadOk))} :
        /\ coord' = [coord EXCEPT ![u] = r.c]
        /\ moduleLoaded' = LoadedAfter(r.c)
        /\ last' = [op |-> "decryptSharedBlock", user |-> u, hasKeys |-> hasKeys[u],
                    call |-> sharedBlock,
                    threw |-> r.threw, valid |-> r.valid,
                    signatureValid |-> r.signatureValid,
                    decryptionValid |-> r.decryptionValid,
                    decryptedData |-> r.decryptedData, error |-> r.error,
                    verified |-> r.verified, under |-> r.under, decaps |-> r.decaps,
                    teamKeysBefore |-> coord[u].teamKeys, teamKeys |-> r.c.teamKeys,
                    teamEncryptor |-> r.c.teamEncryptor, pushed |-> r.pushed]
        /\ UNCHANGED <<cryptoScheme, hasKeys, sharedBlock, created, forged, notCoord>>

\* The encryptorType arguments a caller passes: the two types and a value
\* that is neither.
EncryptorTypeArgs == {"mailbox", "team", "other"}

\* The recipient lists a block is created for: a team block has none.
BlockRecipients(encryptorType) ==
    IF encryptorType = "team" THEN {<<>>} ELSE RecipientLists(cryptoScheme)

NextCoord ==
    \/ \E u \in Users : UserInit(u)
    \/ \E u \in Users, g \in Users : SetTeamKeys(u, g)
    \/ \E u \in Users, data \in DataTexts, encryptorType \in EncryptorTypeArgs,
          loadOk \in LoadOutcomes :
          \E rcpts \in BlockRecipients(encryptorType) :
              CreateSharedBlock(u, data, rcpts, encryptorType, loadOk)
    \/ \E f \in {"signPublicKey", "teamKeys", "encryptedVersions", "teamEncrypted"} : ForgeDrop(f)
    \/ \E v \in SenderKeyArgs(cryptoScheme) \ {Undef, Null} : ForgeSignKey(v)
    \/ \E u \in Users, loadOk \in LoadOutcomes : DecryptSharedBlock(u, loadOk)

SpecCoord == InitCoord /\ [][NextCoord]_vars

DecryptDone == last.op = "decryptSharedBlock"

\* The key under which the signature of the block has to verify
BlockVerifyKey ==
    IF last.call.encryptorType = "team" THEN last.teamKeys.teamEdPublic
    ELSE last.call.signPublicKey

\* C4: decryptSharedBlock returns decrypted data only when a signature
\* verification was performed and succeeded: for a mailbox block under the
\* block's signPublicKey, which the block must carry, and for a team block
\* under the signature public key of the team keys.
C4_CoordinatorSuppressesUnverified ==
    (DecryptDone /\ last.decryptedData # Null) =>
        /\ last.verified
        /\ Truthy(BlockVerifyKey)
        /\ last.under = BlockVerifyKey

\* An ElGamal mailbox block whose data is returned after verification
C4_Witness ==
    /\ DecryptDone /\ last.decryptedData # Null /\ last.valid
    /\ cryptoScheme = "elgamal" /\ last.call.encryptorType = "mailbox"
    /\ last.verified /\ last.under = last.call.signPublicKey

\* C7: decryptSharedBlock never throws, whatever the block and the state of
\* the coordinator, and every result that is not valid carries an error.
C7_DecryptNeverThrows ==
    DecryptDone => (~last.threw /\ (~last.valid => last.error # Null))

\* The call is made by a participant that owns keys, on a mailbox block
\* that holds no version for the participant's key.
NonRecipientCall ==
    /\ DecryptDone /\ last.hasKeys /\ Truthy(last.call)
    /\ last.call.encryptorType = "mailbox" /\ Truthy(last.call.encryptedVersions)
    /\ last.user \notin DOMAIN last.call.encryptedVersions.m

\* C8: a participant that is no recipient of a mailbox block gets
\* valid = false, no data and the no-matching-recipient error, and nothing
\* is decapsulated or decrypted.
C8_NonRecipientRejected ==
    NonRecipientCall =>
        /\ ~last.threw /\ ~last.valid /\ last.decryptedData = Null
        /\ last.error = ErrMsg("No encrypted version found for this user")
        /\ last.decaps = 0

\* A non-recipient is rejected on a block that holds a version for another
\* participant.
C8_Witness ==
    /\ NonRecipientCall /\ DOMAIN last.call.encryptedVersions.m # {}
    /\ ~last.valid /\ last.decaps = 0

\* The call is made on a team block without team keys by a coordinator
\* that has none either.
NoKeyTeamCall ==
    /\ DecryptDone /\ Truthy(last.call) /\ last.call.encryptorType = "team"
    /\ ~Truthy(last.call.teamKeys) /\ last.teamKeysBefore = Null

\* C10: a team block without team keys, decrypted by a coordinator that
\* never had team keys, gives valid = false, no data and the missing-key
\* error, without throwing, and the coordinator's team keys stay null.
C10_NoKeyTeamDecrypt ==
    NoKeyTeamCall =>
        /\ ~last.threw /\ ~last.valid /\ last.decryptedData = Null
        /\ last.error = ErrMsg("No team keys available for decryption")
        /\ last.teamKeys = Null

C10_Witness ==
    /\ NoKeyTeamCall /\ ~last.threw /\ ~last.valid /\ last.teamKeys = Null

\* decryptSharedBlock has handled a team block that has its teamEncrypted
TeamBlockCall ==
    /\ DecryptDone /\ ~last.threw /\ Truthy(last.call)
    /\ last.call.encryptorType = "team" /\ Truthy(last.call.teamEncrypted)

MissingTeamKeys == ErrMsg("No team keys available for decryption")

\* The team keys that the call has to use
ResolvedTeamKeys ==
    IF Truthy(last.call.teamKeys) THEN last.call.teamKeys ELSE last.teamKeysBefore

\* C20: decryptSharedBlock of a team block uses the block's teamKeys when
\* the block carries them, whatever keys the coordinator had, else the
\* coordinator's own team keys, and reports the missing-key error exactly
\* when neither exists.
C20_TeamKeyResolution ==
    TeamBlockCall =>
        /\ (last.error = MissingTeamKeys) <=> ~Truthy(ResolvedTeamKeys)
        /\ last.teamKeys = ResolvedTeamKeys
        /\ last.error = Null =>
               (Truthy(last.teamEncryptor) /\ last.teamEncryptor.keys = ResolvedTeamKeys)

\* A coordinator that had team keys of its own has decrypted a team block
\* under the other keys that the block carries.
C20_Witness ==
    /\ TeamBlockCall /\ Truthy(last.call.teamKeys) /\ Truthy(last.teamKeysBefore)
    /\ last.teamKeysBefore # last.call.teamKeys
    /\ last.error = Null /\ last.teamEncryptor.keys = last.call.teamKeys

\* A coordinator has decrypted a team block without keys under its own.
C20_FallbackReached ==
    /\ TeamBlockCall /\ ~Truthy(last.call.teamKeys) /\ Truthy(last.teamKeysBefore)
    /\ last.error = Null /\ last.teamEncryptor.keys = last.teamKeysBefore

\* decryptSharedBlock has returned valid = true for a team block
TeamBlockAccepted == TeamBlockCall /\ last.valid

\* The envelope of the block verifies under keys.teamEdPublic and decrypts
\* under keys.teamCurvePrivate
EnvelopeOpensUnder(keys) ==
    /\ Truthy(keys)
    /\ ProviderCreateTeamEncryptor(cryptoScheme, keys).ok
    /\ TeamDecrypt(ProviderCreateTeamEncryptor(cryptoScheme, keys).val,
                   last.call.teamEncrypted, FALSE).ok

\* C33 as stated: a coordinator that holds a team key set K accepts a team
\* block only if the envelope verifies and decrypts under K.
C33_OwnKeysAuthenticate ==
    (TeamBlockAccepted /\ Truthy(last.teamKeysBefore)) =>
        /\ EnvelopeOpensUnder(last.teamKeysBefore)
        /\ last.verified /\ last.under = last.teamKeysBefore.teamEdPublic

\* C33 as amended: a team block is accepted only if its envelope verifies
\* and decrypts under the key set the call resolves, which is the
\* block's teamKeys when it carries them and K otherwise; a block without
\* teamKeys is accepted only if it verifies and decrypts under K.
C33_ResolvedKeysAuthenticate ==
    TeamBlockAccepted =>
        /\ EnvelopeOpensUnder(ResolvedTeamKeys)
        /\ last.verified /\ last.under = ResolvedTeamKeys.teamEdPublic
        /\ ~Truthy(last.call.teamKeys) => EnvelopeOpensUnder(last.teamKeysBefore)

\* A coordinator that holds the keys of one team has accepted the block of
\* another team, under the keys the block carries.
C33_Witness ==
    /\ TeamBlockAccepted /\ Truthy(last.teamKeysBefore) /\ Truthy(last.call.teamKeys)
    /\ last.teamKeysBefore # last.call.teamKeys
    /\ ~EnvelopeOpensUnder(last.teamKeysBefore)
    /\ last.under = last.call.teamKeys.teamEdPublic

\* A block that carries no team keys was rejected by a coordinator that
\* holds the keys of another team.
C33_RejectedReached ==
    /\ TeamBlockCall /\ ~last.valid /\ ~Truthy(last.call.teamKeys)
    /\ Truthy(last.teamKeysBefore) /\ ~EnvelopeOpensUnder(last.teamKeysBefore)

\* C22: every createSharedBlock call and every decryptSharedBlock call that
\* returns, also with valid = false, has appended exactly one entry to the
\* participant's stats.
C22_OneStatsEntry ==
    (last.op \in {"createSharedBlock", "decryptSharedBlock"} /\ ~last.threw) =>
        last.pushed = 1

\* createSharedBlock has just returned the block sharedBlock
BlockCreated == last.op = "createSharedBlock" /\ ~last.threw

\* The keys that a block carries in its fields
BlockKeys(b) ==
    {b.signPublicKey} \cup
    (IF Truthy(b.teamKeys) THEN {b.teamKeys[f] : f \in TeamKeyFields} ELSE {})

\* The secret keys of user u
SecretKeys(u) == {KemSec(u, KeyRep(cryptoScheme)), SigSec(u, KeyRep(cryptoScheme))}

\* C12: no block returned by createSharedBlock carries the KEM secret key
\* or the signature secret key of the participant that created it.
C12_NoSecretKeyInBlock ==
    BlockCreated => (BlockKeys(sharedBlock) \cap SecretKeys(sharedBlock.userId) = {})

\* C13: every block returned by createSharedBlock has encryptorType mailbox
\* or team, a team block has teamEncrypted and no encryptedVersions, and a
\* mailbox block has encryptedVersions and no teamEncrypted.
C13_BlockShape ==
    BlockCreated =>
        /\ sharedBlock.encryptorType \in {"mailbox", "team"}
        /\ sharedBlock.encryptorType = "team" <=>
              (Truthy(sharedBlock.teamEncrypted) /\ sharedBlock.encryptedVersions = Undef)
        /\ sharedBlock.encryptorType = "mailbox" <=>
              (Truthy(sharedBlock.encryptedVersions) /\ sharedBlock.teamEncrypted = Undef)

\* A participant that owns keys has decrypted the block as createSharedBlock
\* returned it.
HonestCall == DecryptDone /\ ~forged /\ Truthy(last.call) /\ last.hasKeys

\* The result reports success and returns the data the block was made from
RoundTripResult ==
    /\ ~last.threw /\ last.valid /\ last.signatureValid /\ last.decryptionValid
    /\ last.error = Null /\ last.decryptedData = last.call.blockData

\* C14: a recipient of a mailbox block that createSharedBlock returned gets
\* valid, signatureValid and decryptionValid true, no error and the
\* plaintext the block was made from, whatever the string is.
C14_CoordMailboxRoundTrip ==
    (HonestCall /\ last.call.encryptorType = "mailbox"
                /\ last.user \in DOMAIN last.call.encryptedVersions.m) => RoundTripResult

\* C15: a participant that decrypts a team block that createSharedBlock
\* returned gets valid true, no error and the plaintext itself, whatever
\* the string is.
C15_CoordTeamRoundTrip ==
    (HonestCall /\ last.call.encryptorType = "team") => RoundTripResult

\* encryptForTeam(data) on user u's coordinator
EncryptForTeam(u, data, loadOk) ==
    \E r \in {encryptForTeam(cryptoScheme, u, hasKeys[u], coord[u], Str(data), CanLoad(loadOk))} :
        /\ coord' = [coord EXCEPT ![u] = r.c]
        /\ moduleLoaded' = LoadedAfter(r.c)
        /\ last' = [op |-> "encryptForTeam", user |-> u, hasKeys |-> hasKeys[u],
                    teamKeysBefore |-> coord[u].teamKeys, teamKeys |-> r.c.teamKeys,
                    teamEncryptorBefore |-> coord[u].teamEncryptor,
                    teamEncryptor |-> r.c.teamEncryptor,
                    can_encrypt |-> IF Truthy(r.c.teamEncryptor)
                                    THEN r.c.teamEncryptor.can_encrypt ELSE Undef,
                    threw |-> ~r.res.ok, invoked |-> r.res.invoked, envelope |-> r.res.val]
        /\ UNCHANGED <<cryptoScheme, hasKeys, sharedBlock, created, forged, notCoord>>

\* The values an encryptor's can_encrypt property can have
FlagValues == {JsTrue, JsFalse, Undef}

\* encryptForTeam continues with a team encryptor over user u's keys whose
\* can_encrypt is the value flag.
EncryptWithTeamEncryptor(u, flag, data) ==
    /\ hasKeys[u] /\ cryptoScheme # "elgamal"
    /\ \E made \in {ProviderCreateTeamEncryptor(cryptoScheme,
                                                TeamKeySet(u, u, KeyRep(cryptoScheme)))} :
       \E r \in {encryptWithTeamEncryptor([made.val EXCEPT !.can_encrypt = flag], Str(data))} :
          last' = [op |-> "encryptWithTeamEncryptor", user |-> u, can_encrypt |-> flag,
                   threw |-> ~r.ok, invoked |-> r.invoked, envelope |-> r.val]
    /\ UNCHANGED <<cryptoScheme, moduleLoaded, hasKeys, coord, sharedBlock, created, forged,
                   notCoord>>

\* The team block that user g's createSharedBlock returns for data, with
\* the field dropped of its teamKeys removed in transit ("none": intact).
TeamBlockOf(scheme, g, data, dropped) ==
    Bind(TeamKeySet(g, g, KeyRep(scheme)), LAMBDA keys :
        [t |-> "block", userId |-> g, blockData |-> data,
         signPublicKey |-> generateDSAKeyPair(scheme, g).publicKey,
         scheme |-> scheme, encryptorType |-> "team", encryptedVersions |-> Undef,
         teamEncrypted |-> TeamEncrypt(ProviderCreateTeamEncryptor(scheme, keys).val, data).val,
         teamKeys |-> IF dropped = "none" THEN keys ELSE [keys EXCEPT ![dropped] = Undef]])

\* The fields of the team keys that a block can arrive without
DroppedKeys == {"none", "teamCurvePrivate", "teamEdPublic"}

\* decryptSharedBlock(block) on user u's coordinator for a team block of
\* user g
DecryptTeamBlockOf(u, g, data, dropped) ==
    /\ hasKeys[g] /\ cryptoScheme # "elgamal"
    /\ \E block \in {TeamBlockOf(cryptoScheme, g, Str(data), dropped)} :
       \E r \in {decryptSharedBlock(cryptoScheme, u, hasKeys[u], coord[u], block,
                                   CanLoad(TRUE))} :
        /\ coord' = [coord EXCEPT ![u] = r.c]
        /\ moduleLoaded' = LoadedAfter(r.c)
        /\ last' = [op |-> "decryptSharedBlock", user |-> u, call |-> block,
                    threw |-> r.threw, valid |-> r.valid, error |-> r.error,
                    decryptedData |-> r.decryptedData,
                    teamKeysBefore |-> coord[u].teamKeys, teamKeys |-> r.c.teamKeys,
                    teamEncryptorBefore |-> coord[u].teamEncryptor,
                    teamEncryptor |-> r.c.teamEncryptor]
    /\ UNCHANGED <<cryptoScheme, hasKeys, sharedBlock, created, forged, notCoord>>

\* encryptForMultipleRecipients(data, recipientPublicKeys, encryptorType),
\* to which createSharedBlock hands its arguments, on user u's coordinator
EncryptForMultipleRecipients(u, data, rcpts, encryptorType, loadOk) ==
    \E r \in {encryptForMultipleRecipients(cryptoScheme, u, hasKeys[u], coord[u], Str(data),
                                          rcpts, encryptorType, CanLoad(loadOk))} :
        /\ coord' = [coord EXCEPT ![u] = r.c]
        /\ moduleLoaded' = LoadedAfter(r.c)
        /\ last' = [op |-> "encryptForMultipleRecipients", user |-> u, rcpts |-> rcpts,
                    encryptorType |-> encryptorType, threw |-> ~r.res.ok,
                    encryptor |-> r.c.mailboxEncryptor, calls |-> r.res.calls]
        /\ UNCHANGED <<cryptoScheme, hasKeys, sharedBlock, created, forged, notCoord>>

NextFanout ==
    \/ \E u \in Users : UserInit(u)
    \/ \E u \in Users, data \in DataTexts, loadOk \in LoadOutcomes :
          EncryptForTeam(u, data, loadOk)
    \/ \E u \in Users, flag \in FlagValues, data \in DataTexts :
          EncryptWithTeamEncryptor(u, flag, data)
    \/ \E u \in Users, data \in DataTexts, rcpts \in RecipientLists(cryptoScheme),
          loadOk \in LoadOutcomes :
          EncryptForMailbox(u, data, rcpts, loadOk)

SpecFanout == InitCoord /\ [][NextFanout]_vars

\* The team operations of the coordinators: encryptForTeam, and
\* decryptSharedBlock of team blocks that arrive with or without a key.
NextTeamOps ==
    \/ \E u \in Users : UserInit(u)
    \/ \E u \in Users, data \in DataTexts, loadOk \in LoadOutcomes :
          EncryptForTeam(u, data, loadOk)
    \/ \E u \in Users, g \in Users, data \in DataTexts, dropped \in DroppedKeys :
          DecryptTeamBlockOf(u, g, data, dropped)

SpecTeamOps == InitCoord /\ [][NextTeamOps]_vars

\* The payloads of the calls whose encryptions are counted: the empty string
\* and a string of one character
CountedTexts == {<<>>, <<"a">>}

\* The encryption of one payload for a recipient list in either mode
NextRecipients ==
    \/ \E u \in Users : UserInit(u)
    \/ \E u \in Users, data \in CountedTexts, rcpts \in RecipientLists(cryptoScheme),
          encryptorType \in ENCRYPTOR_TYPES, loadOk \in LoadOutcomes :
          EncryptForMultipleRecipients(u, data, rcpts, encryptorType, loadOk)

SpecRecipients == InitCoord /\ [][NextRecipients]_vars

\* The recipients of the last encryptForMailbox call for which the mailbox
\* encryptor produces a message
Succeeded ==
    {last.rcpts[i].id : i \in {j \in 1..Len(last.rcpts) :
        MailboxEncrypt(cryptoScheme, MailboxKeys(cryptoScheme, last.user), Str(last.data),
                       last.rcpts[j]).ok}}

\* encryptForMailbox went past the creation of the mailbox encryptor
FanoutDone == last.op = "encryptForMailbox" /\ last.encryptor

\* C19: encryptForTeam on the coordinator of a participant that has no team
\* keys stores a generated key set before it encrypts, and with an encryptor
\* that reports can_encrypt = false the call fails and encrypt is not invoked.
C19_EncryptForTeamGate ==
    /\ (last.op = "encryptForTeam" /\ last.hasKeys /\ last.teamKeysBefore = Null) =>
           /\ last.teamKeys = TeamKeySet(last.user, last.user, KeyRep(cryptoScheme))
           /\ ~last.threw => (last.invoked /\ last.envelope # Null)
    /\ (last.op \in {"encryptForTeam", "encryptWithTeamEncryptor"}
            /\ last.can_encrypt = JsFalse) => (last.threw /\ ~last.invoked)
    /\ (last.op \in {"encryptForTeam", "encryptWithTeamEncryptor"} /\ ~last.invoked) =>
           last.threw

\* A coordinator without team keys has generated them and encrypted.
C19_Witness ==
    /\ last.op = "encryptForTeam" /\ last.hasKeys /\ last.teamKeysBefore = Null
    /\ ~last.threw /\ last.invoked /\ last.teamKeys # Null

\* A team operation of a coordinator has failed
TeamOperationFailed ==
    \/ last.op = "encryptForTeam" /\ last.threw
    \/ last.op = "decryptSharedBlock" /\ last.call.encryptorType = "team"
          /\ (last.threw \/ last.error # Null)

\* C21: when encryptForTeam or decryptSharedBlock of a team block fails, the
\* coordinator's teamKeys and its cached teamEncryptor are what they were
\* before the call.
C21_NoPartialState ==
    TeamOperationFailed =>
        /\ last.teamKeys = last.teamKeysBefore
        /\ last.teamEncryptor = last.teamEncryptorBefore

\* A coordinator with working team keys has failed to decrypt a block with
\* incomplete team keys and is left with the keys of that block and no
\* encryptor.
C21_KeysReplacedByFailure ==
    /\ last.op = "decryptSharedBlock" /\ last.error # Null
    /\ Truthy(last.teamEncryptorBefore) /\ last.teamEncryptor = Null
    /\ last.teamKeys = last.call.teamKeys /\ last.teamKeys # last.teamKeysBefore

\* decryptSharedBlock returned a result object
DecryptReturned == DecryptDone /\ ~last.threw

\* C29: in every result of decryptSharedBlock the three flags are equal, and
\* valid is false exactly when error is not null.
C29_FlagConsistency ==
    DecryptReturned =>
        /\ last.valid = last.signatureValid /\ last.valid = last.decryptionValid
        /\ ~last.valid <=> last.error # Null

\* The three flags of a result are equal, and a result with an error is
\* not valid.
C29_FlagsEqual ==
    DecryptReturned =>
        /\ last.valid = last.signatureValid /\ last.valid = last.decryptionValid
        /\ last.error # Null => ~last.valid

\* C24: a call in team mode that returns has invoked the team encryptor's
\* encrypt exactly once, whatever the length of the recipient list, and a
\* call in mailbox mode, once it has its mailbox encryptor, invokes encrypt
\* once for each element of recipientPublicKeys.
C24_FanoutCount ==
    last.op = "encryptForMultipleRecipients" =>
        /\ (last.encryptorType = "team" /\ ~last.threw) => last.calls = 1
        /\ (last.encryptorType = "mailbox" /\ last.encryptor) =>
               last.calls = Len(last.rcpts)

\* A team call with two recipients has returned after one encryption.
C24_TeamOnce ==
    /\ last.op = "encryptForMultipleRecipients" /\ last.encryptorType = "team"
    /\ ~last.threw /\ Len(last.rcpts) = 2 /\ last.calls = 1

\* C9: whatever the recipient list holds, encryptForMailbox does not throw
\* because of one recipient, and the keys of the map it returns are the
\* recipient keys for which encryption succeeded.
C9_PartialTolerance ==
    FanoutDone => (~last.threw /\ DOMAIN last.versions.m = Succeeded)

(***************************************************************************)
(* Concurrent init() calls on one coordinator and on its provider.  A      *)
(* call runs up to its first await in one step; promises are numbered in   *)
(* the order of their creation and prom[p] is the state of promise p.      *)
(***************************************************************************)
NumCallers == 3
MaxLoads == 2

Callers == 1..NumCallers

\* The provider and coordinator right after construction, and no call made
NewInit(scheme) ==
    [phase |-> "run", scheme |-> scheme,
     cInitialized |-> FALSE, cInitPromise |-> 0,
     pInitialized |-> FALSE, pInitPromise |-> 0,
     prom |-> <<>>, loading |-> 0, awaited |-> 0,
     provInitCalls |-> 0, loads |-> 0, loadFailed |-> FALSE,
     pc |-> [k \in Callers |-> "idle"], on |-> [k \in Callers |-> 0],
     via |-> [k \in Callers |-> "none"]]

\* A check of this.initPromise that never finds one
NoInitPromise(promise) == FALSE

\* if (this.initPromise): a call that finds a promise returns it
HasInitPromise(promise) == promise # 0

Settled(i, p) == i.prom[p] \in {"resolved", "rejected"}

\* The provider's init() up to its first await, on the state i: the result
\* is the state after it, with field ret the promise the call returns.
\* PQCProvider.init is an async function that sets initialized at once.
providerInit(i) ==
    IF i.scheme = "pqc" \/ i.pInitialized
    THEN [i EXCEPT !.pInitialized = TRUE, !.prom = Append(i.prom, "resolved")]
            @@ [ret |-> Len(i.prom) + 1]
    ELSE IF HasInitPromise(i.pInitPromise)
    THEN i @@ [ret |-> i.pInitPromise]
    ELSE [i EXCEPT !.prom = Append(i.prom, "pending"),
                   !.pInitPromise = Len(i.prom) + 1,
                   !.loading = Len(i.prom) + 1,
                   !.loads = i.loads + 1]
            @@ [ret |-> Len(i.prom) + 1]

\* The fields of the state, without the promise returned
State(r) == [f \in DOMAIN r \ {"ret"} |-> r[f]]

\* A call may start a load only while the bound on loads allows it.
MayLoad(i) == i.scheme = "pqc" \/ i.pInitialized \/ i.pInitPromise # 0 \/ i.loads < MaxLoads

\* Caller k calls the coordinator's init().
CoordInitCall(k) ==
    /\ ini.phase = "run" /\ ini.pc[k] = "idle"
    /\ IF ini.cInitialized
       THEN ini' = [ini EXCEPT !.pc[k] = "ok", !.via[k] = "coord"]
       ELSE IF HasInitPromise(ini.cInitPromise)
       THEN ini' = [ini EXCEPT !.pc[k] = "waiting", !.on[k] = ini.cInitPromise,
                               !.via[k] = "coord"]
       ELSE /\ MayLoad(ini) /\ ini.awaited = 0
            /\ \E r \in {providerInit(ini)} :
                 ini' = [State(r) EXCEPT !.prom = Append(r.prom, "pending"),
                                         !.cInitPromise = Len(r.prom) + 1,
                                         !.awaited = r.ret,
                                         !.provInitCalls = r.provInitCalls + 1,
                                         !.pc[k] = "waiting",
                                         !.on[k] = Len(r.prom) + 1,
                                         !.via[k] = "coord"]
    /\ UNCHANGED notIni

\* Caller k calls the provider's init() itself.
ProviderInitCall(k) ==
    /\ ini.phase = "run" /\ ini.pc[k] = "idle" /\ MayLoad(ini)
    /\ \E r \in {providerInit(ini)} :
         ini' = [State(r) EXCEPT !.pc[k] = "waiting", !.on[k] = r.ret,
                                 !.via[k] = "provider"]
    /\ UNCHANGED notIni

\* A catch block that rejects the promise and leaves it memoized
initCatchKeepsPromise(i) ==
    [i EXCEPT !.prom[i.cInitPromise] = "rejected", !.awaited = 0]

\* The catch block of the coordinator's init: this.initPromise = null, then
\* reject(error)
initCatch(i) ==
    [i EXCEPT !.prom[i.cInitPromise] = "rejected", !.cInitPromise = 0, !.awaited = 0]

\* The catch block of the provider's init: this.initPromise = null, then
\* reject(error)
providerInitCatch(i) ==
    [i EXCEPT !.pInitPromise = 0, !.prom[i.loading] = "rejected",
              !.loading = 0, !.loadFailed = TRUE]

\* loadCryptoModule() completes: the provider's promise is resolved, or
\* cleared and rejected.
LoadDone(ok) ==
    /\ ini.phase = "run" /\ ini.loading # 0
    /\ ini' = IF ok
              THEN [ini EXCEPT !.pInitialized = TRUE, !.prom[ini.loading] = "resolved",
                               !.loading = 0]
              ELSE providerInitCatch(ini)
    /\ UNCHANGED notIni

\* The coordinator's init continues after await this.cryptoProvider.init().
CoordInitResume ==
    /\ ini.phase = "run" /\ ini.awaited # 0 /\ Settled(ini, ini.awaited)
    /\ ini' = IF ini.prom[ini.awaited] = "resolved"
              THEN [ini EXCEPT !.cInitialized = TRUE, !.prom[ini.cInitPromise] = "resolved",
                               !.awaited = 0]
              ELSE initCatch(ini)
    /\ UNCHANGED notIni

\* Caller k's await of the promise it was given completes.
CallerResume(k) ==
    /\ ini.phase = "run" /\ ini.pc[k] = "waiting" /\ Settled(ini, ini.on[k])
    /\ ini' = [ini EXCEPT !.pc[k] = IF ini.prom[ini.on[k]] = "resolved" THEN "ok" ELSE "failed"]
    /\ UNCHANGED notIni

InitInit ==
    /\ ini \in {NewInit(scheme) : scheme \in Schemes}
    /\ mbox = MailboxIdle /\ team = TeamIdle /\ CoordIdle /\ prov = ProvIdle
    /\ bcast = BcastIdle /\ sess = SessIdle /\ messageSizes = NoSizes

NextInit ==
    \/ \E k \in Callers : CoordInitCall(k)
    \/ \E k \in Callers : ProviderInitCall(k)
    \/ \E ok \in BOOLEAN : LoadDone(ok)
    \/ CoordInitResume
    \/ \E k \in Callers : CallerResume(k)

SpecInit == InitInit /\ [][NextInit]_vars

\* Some caller has called the coordinator's init()
CoordCalled == \E k \in Callers : ini.via[k] = "coord"

\* Some step of the calls made is still to be taken
InitPending ==
    \/ ini.loading # 0
    \/ ini.awaited # 0 /\ Settled(ini, ini.awaited)
    \/ \E k \in Callers : ini.pc[k] = "waiting" /\ Settled(ini, ini.on[k])

\* C11: while no load fails, the calls of init() on one coordinator start
\* the provider's initialization exactly once and the calls on one NaCl or
\* ElGamal provider start one load; no caller is rejected, a caller that
\* waits is waiting for a step that is still to come, and a call made after
\* completion succeeds without starting anything.
C11_InitOnce ==
    (ini.phase = "run" /\ ~ini.loadFailed) =>
        /\ ini.provInitCalls = (IF CoordCalled THEN 1 ELSE 0)
        /\ ini.loads <= 1
        /\ (ini.scheme # "pqc" /\ (\E k \in Callers : ini.pc[k] # "idle")) => ini.loads = 1
        /\ \A k \in Callers : ini.pc[k] # "failed"
        /\ (\E k \in Callers : ini.pc[k] = "waiting") => InitPending
        /\ ini.cInitialized => ini.awaited = 0 /\ ini.prom[ini.cInitPromise] = "resolved"

\* Three callers of the coordinator's init() have all succeeded, two of
\* them having called before the first call completed, on one load.
C11_Witness ==
    /\ ini.phase = "run" /\ ~ini.loadFailed /\ ini.scheme = "nacl"
    /\ \A k \in Callers : ini.pc[k] = "ok" /\ ini.via[k] = "coord"
    /\ Cardinality({k \in Callers : ini.on[k] # 0}) >= 2
    /\ ini.provInitCalls = 1 /\ ini.loads = 1

\* The promise caller k was given is rejected
GivenRejected(k) == ini.on[k] # 0 /\ ini.prom[ini.on[k]] = "rejected"

\* No initialization is in progress or completed on the coordinator
CoordInitFresh == ~ini.cInitialized /\ ini.cInitPromise = 0

\* C30: when the provider's initialization fails, every caller of init()
\* that was given the promise of that attempt is rejected and none is
\* told it succeeded; initialized is true only after an attempt that
\* succeeded; no rejected promise stays memoized, on the coordinator or on
\* the provider, so that the next call starts a new attempt.
C30_InitFailureNotSticky ==
    ini.phase = "run" =>
        /\ \A k \in Callers :
              /\ GivenRejected(k) => ini.pc[k] \in {"waiting", "failed"}
              /\ (GivenRejected(k) /\ ini.pc[k] = "waiting") => InitPending
              /\ (ini.pc[k] = "ok" /\ ini.via[k] = "coord") =>
                    ini.cInitialized /\ ini.pInitialized
              /\ (ini.pc[k] = "ok" /\ ini.via[k] = "provider") => ini.pInitialized
        /\ ini.cInitialized => ini.pInitialized
        /\ (ini.pInitialized /\ ini.scheme # "pqc") =>
              \E p \in DOMAIN ini.prom : ini.prom[p] = "resolved"
        /\ ini.cInitPromise # 0 => ini.prom[ini.cInitPromise] # "rejected"
        /\ ini.pInitPromise # 0 => ini.prom[ini.pInitPromise] # "rejected"
        /\ (CoordInitFresh /\ ini.awaited = 0 /\ MayLoad(ini)) =>
              providerInit(ini).prom[providerInit(ini).ret] # "rejected"

\* Two callers of the coordinator's init() were rejected by a load that
\* failed, and a third, calling afterwards, succeeded on a second load.
C30_Witness ==
    /\ ini.phase = "run" /\ ini.loadFailed /\ ini.loads = 2
    /\ \A k \in Callers : ini.via[k] = "coord"
    /\ Cardinality({k \in Callers : ini.pc[k] = "failed"}) = 2
    /\ \E k \in Callers : ini.pc[k] = "ok" /\ ini.on[k] # 0
    /\ ini.cInitialized

(***************************************************************************)
(* Calls of the provider factory and of the providers' createTeamEncryptor *)
(* with arguments of every kind.                                           *)
(***************************************************************************)
\* The scheme names passed to getCryptoProvider: the registered ones and
\* one that is not registered.
SchemeArgs == Schemes \cup {"rsa"}

\* The names passed as options.kem, options.signature and
\* options.symmetric: none, the registered one and one that is not.
KemArgs == {"", "ml-kem-1024", "kyber"}
SignatureArgs == {"", "ml-dsa-87", "falcon"}
SymmetricArgs == {"", "aes-gcm", "chacha"}

\* new PQCProvider(options): a suite name that is not registered is
\* rejected, a missing one is replaced by the default.
createPQCProvider(kem, signature, symmetric) ==
    IF kem \notin {"", "ml-kem-1024"} THEN Throw("Invalid KEM scheme specified")
    ELSE IF signature \notin {"", "ml-dsa-87"} THEN Throw("Invalid signature scheme specified")
    ELSE IF symmetric \notin {"", "aes-gcm"} THEN Throw("Invalid symmetric cipher specified")
    ELSE Return([t |-> "provider", scheme |-> "pqc"])

\* getCryptoProvider(scheme, options)
getCryptoProvider(scheme, kem, signature, symmetric) ==
    IF scheme = "nacl" THEN Return([t |-> "provider", scheme |-> "nacl"])
    ELSE IF scheme = "elgamal" THEN Return([t |-> "provider", scheme |-> "elgamal"])
    ELSE createPQCProvider(kem, signature, symmetric)

\* The methods that a provider has to have
RequiredMethods ==
    {"init", "generateKEMKeyPair", "generateDSAKeyPair", "createMailboxEncryptor",
     "createTeamEncryptor"}

\* The methods among them that the class of the provider defines
ProviderMethods(scheme) ==
    IF scheme = "elgamal" THEN RequiredMethods \ {"createTeamEncryptor"}
    ELSE RequiredMethods

\* A value of the wrong length for a key of the scheme: a short typed array
\* for the post-quantum provider, a short string for the others.
WrongLength(scheme) == IF scheme = "pqc" THEN Bytes(<<"a">>) ELSE BadKey

\* The values of the field f of a key set passed to createTeamEncryptor:
\* the key of the team, no value, and a value of the wrong length.
KeyFieldValues(scheme, f) ==
    {TeamKeySet(1, 1, KeyRep(scheme))[f], Undef, WrongLength(scheme)}

InitProvider ==
    /\ prov = [phase |-> "ready"]
    /\ mbox = MailboxIdle /\ team = TeamIdle /\ CoordIdle /\ ini = IniIdle
    /\ bcast = BcastIdle /\ sess = SessIdle /\ messageSizes = NoSizes

GetCryptoProvider(scheme, kem, signature, symmetric) ==
    /\ prov.phase = "ready"
    /\ prov' = [phase |-> "getCryptoProvider", scheme |-> scheme, kem |-> kem,
                signature |-> signature, symmetric |-> symmetric,
                res |-> getCryptoProvider(scheme, kem, signature, symmetric)]
    /\ UNCHANGED notProv

\* createTeamEncryptor(keys) on the provider of the scheme, its module
\* being loaded
CreateTeamEncryptor(scheme, keys) ==
    /\ prov.phase = "ready"
    /\ prov' = [phase |-> "createTeamEncryptor", scheme |-> scheme, keys |-> keys,
                res |-> ProviderCreateTeamEncryptor(scheme, keys)]
    /\ UNCHANGED notProv

NextProvider ==
    \/ \E scheme \in SchemeArgs, kem \in KemArgs, signature \in SignatureArgs,
          symmetric \in SymmetricArgs :
          GetCryptoProvider(scheme, kem, signature, symmetric)
    \/ \E scheme \in Schemes :
          \E keys \in [teamCurvePublic : KeyFieldValues(scheme, "teamCurvePublic"),
                       teamCurvePrivate : KeyFieldValues(scheme, "teamCurvePrivate"),
                       teamEdPublic : KeyFieldValues(scheme, "teamEdPublic"),
                       teamEdPrivate : KeyFieldValues(scheme, "teamEdPrivate"),
                       myCurvePublic : KeyFieldValues(scheme, "myCurvePublic"),
                       myCurvePrivate : KeyFieldValues(scheme, "myCurvePrivate"),
                       t : {"teamkeys"}] :
              CreateTeamEncryptor(scheme, keys)

SpecProvider == InitProvider /\ [][NextProvider]_vars

\* C16: getCryptoProvider called with a scheme name that is not registered
\* fails; it returns no provider.
C16_UnknownSchemeRejected ==
    (prov.phase = "getCryptoProvider" /\ prov.scheme \notin Schemes) => ~prov.res.ok

TeamEncryptorCalled == prov.phase = "createTeamEncryptor"

\* The fields of the key set passed that are missing or of the wrong length
Offending == {f \in TeamKeyFields : prov.keys[f] # TeamKeySet(1, 1, KeyRep(prov.scheme))[f]}

\* C17: on every provider createTeamEncryptor(keys) returns an encryptor when
\* the six keys are present and correctly sized, and otherwise fails with an
\* error that names the fields that are missing or malformed.
C17_TeamKeyValidation ==
    TeamEncryptorCalled =>
        IF Offending = {} THEN prov.res.ok
        ELSE /\ ~prov.res.ok
             /\ "fields" \in DOMAIN prov.res
             /\ prov.res.fields = Offending

\* C23: every provider that getCryptoProvider returns has the five required
\* methods, and on every provider createTeamEncryptor returns an encryptor
\* for a complete key set.
C23_UniformInterface ==
    /\ (prov.phase = "getCryptoProvider" /\ prov.res.ok) =>
           RequiredMethods \subseteq ProviderMethods(prov.res.val.scheme)
    /\ (TeamEncryptorCalled /\ Offending = {}) =>
           (prov.res.ok /\ prov.res.val.t = "teamenc")

\* The keys that encrypting and that decrypting a team message use
EncryptKeys == {"teamCurvePublic", "teamEdPrivate", "myCurvePublic"}
DecryptKeys == {"teamCurvePrivate", "teamEdPublic"}

\* C18: a team encryptor is created from keys that suffice for one
\* direction only and then reports the other direction as not possible,
\* and a flag is true only if the keys of its direction are usable.
C18_CapabilityFlags ==
    TeamEncryptorCalled =>
        /\ (Offending # {} /\ Offending \cap EncryptKeys = {}) =>
               (prov.res.ok /\ prov.res.val.can_decrypt = JsFalse)
        /\ (Offending # {} /\ Offending \cap DecryptKeys = {}) =>
               (prov.res.ok /\ prov.res.val.can_encrypt = JsFalse)
        /\ (prov.res.ok /\ prov.res.val.can_encrypt = JsTrue) => Offending \cap EncryptKeys = {}
        /\ (prov.res.ok /\ prov.res.val.can_decrypt = JsTrue) => Offending \cap DecryptKeys = {}

(***************************************************************************)
(* DocumentServer.broadcastSharedBlock(block, recipientIds).  The callback *)
(* of recipientIds.map runs for every element up to its first await, the   *)
(* call of the recipient's decryptAndVerifyBlock; the promises of the      *)
(* recipients settle in any order and Promise.all settles after them.      *)
(***************************************************************************)
MaxIds == 2

\* An id that no user of the server has
UnknownId == 0

\* The recipientIds arguments
RecipientIdLists == ListsUpTo(Users \cup {UnknownId}, MaxIds)

\* A value of block.teamEncrypted or block.encryptedVersions that is set
Envelope == [t |-> "envelope"]

\* The block arguments: none, and blocks of each encryptorType with and
\* without their encrypted part
BlockArgs ==
    {Undef} \cup
    [t : {"block"}, encryptorType : EncryptorTypeArgs,
     teamEncrypted : {Undef, Envelope}, encryptedVersions : {Undef, Envelope}]

\* getUserById(userId): UnknownId stands for null
getUserById(userId) == IF userId \in Users THEN userId ELSE UnknownId

\* What decryptAndVerifyBlock of a recipient does: it returns a result with
\* valid true or false, or it throws.
DecryptOutcomes == {Return(JsTrue), Return(JsFalse), Throw("Decryption failed")}

Pending == [t |-> "pending"]

Delivered(recipientId, result) ==
    [t |-> "fulfilled", recipientId |-> recipientId, success |-> TRUE, result |-> result,
     error |-> ""]

NotDelivered(recipientId, message) ==
    [t |-> "fulfilled", recipientId |-> recipientId, success |-> FALSE, result |-> Null,
     error |-> message]

\* A delivery callback without its try block: an error rejects its promise
deliveryStartUncaught(recipientId, methodless) ==
    IF getUserById(recipientId) = UnknownId \/ getUserById(recipientId) \in methodless
    THEN [t |-> "rejected", recipientId |-> recipientId]
    ELSE Pending

\* The delivery callback up to its first await: an unknown recipient and a
\* recipient without decryptAndVerifyBlock are failures for that recipient.
deliveryStart(recipientId, methodless) ==
    IF getUserById(recipientId) = UnknownId
    THEN NotDelivered(recipientId, "Recipient not found")
    ELSE IF getUserById(recipientId) \in methodless
    THEN NotDelivered(recipientId, "Recipient cannot decrypt blocks")
    ELSE Pending

\* The delivery callback after decryptAndVerifyBlock has settled as outcome
deliveryEnd(recipientId, outcome) ==
    IF outcome.ok THEN Delivered(recipientId, outcome.val)
    ELSE NotDelivered(recipientId, outcome.err)

\* The block passes the structure test of broadcastSharedBlock
ValidStructure(block) ==
    \/ block.encryptorType = "team" /\ Truthy(block.teamEncrypted)
    \/ block.encryptorType = "mailbox" /\ Truthy(block.encryptedVersions)

InitBroadcast ==
    /\ bcast = [phase |-> "ready"] /\ sess = SessIdle /\ messageSizes = NoSizes
    /\ mbox = MailboxIdle /\ team = TeamIdle /\ CoordIdle
    /\ ini = IniIdle /\ prov = ProvIdle

\* broadcastSharedBlock(block, recipientIds) is called on a server whose
\* users in methodless have no decryptAndVerifyBlock.
BroadcastSharedBlock(block, recipientIds, methodless) ==
    /\ bcast.phase = "ready"
    /\ bcast' =
         IF ~Truthy(block)
         THEN [phase |-> "done", block |-> block, ids |-> recipientIds, threw |-> TRUE,
               err |-> "Invalid block: block is undefined", res |-> <<>>]
         ELSE IF ~ValidStructure(block)
         THEN [phase |-> "done", block |-> block, ids |-> recipientIds, threw |-> TRUE,
               err |-> "Invalid block structure: missing required encryption data",
               res |-> <<>>]
         ELSE [phase |-> "delivering", block |-> block, ids |-> recipientIds,
               threw |-> FALSE, err |-> "",
               res |-> [i \in 1..Len(recipientIds) |->
                           deliveryStart(recipientIds[i], methodless)]]
    /\ UNCHANGED notBcast

\* The decryptAndVerifyBlock call of delivery i settles
Deliver(i, outcome) ==
    /\ bcast.phase = "delivering"
    /\ i \in DOMAIN bcast.res /\ bcast.res[i] = Pending
    /\ bcast' = [bcast EXCEPT !.res[i] = deliveryEnd(bcast.ids[i], outcome)]
    /\ UNCHANGED notBcast

\* Promise.all(deliveryResults) settles: it rejects as soon as one of the
\* promises has rejected, and is fulfilled when all are.
BroadcastSettle ==
    /\ bcast.phase = "delivering"
    /\ IF \E i \in DOMAIN bcast.res : bcast.res[i].t = "rejected"
       THEN bcast' = [bcast EXCEPT !.phase = "done", !.threw = TRUE,
                                   !.err = "rejected"]
       ELSE /\ \A i \in DOMAIN bcast.res : bcast.res[i] # Pending
            /\ bcast' = [bcast EXCEPT !.phase = "done"]
    /\ UNCHANGED notBcast

NextBroadcast ==
    \/ \E block \in BlockArgs, recipientIds \in RecipientIdLists, methodless \in SUBSET Users :
          BroadcastSharedBlock(block, recipientIds, methodless)
    \/ \E i \in 1..MaxIds, outcome \in DecryptOutcomes : Deliver(i, outcome)
    \/ BroadcastSettle

SpecBroadcast == InitBroadcast /\ [][NextBroadcast]_vars

\* C25: a broadcast of a block with a valid structure does not throw and
\* returns one outcome for each element of recipientIds, in their order; an
\* unknown recipient and a recipient whose decrypt call throws are failures
\* of that recipient, and every other recipient is delivered to.
C25_DeliveryIsolation ==
    (bcast.phase = "done" /\ Truthy(bcast.block) /\ ValidStructure(bcast.block)) =>
        /\ ~bcast.threw
        /\ Len(bcast.res) = Len(bcast.ids)
        /\ \A i \in DOMAIN bcast.res :
              /\ bcast.res[i].t = "fulfilled"
              /\ bcast.res[i].recipientId = bcast.ids[i]
              /\ bcast.ids[i] = UnknownId => ~bcast.res[i].success
              /\ bcast.res[i].success <=> bcast.res[i].error = ""

\* A broadcast to an unknown recipient and a known one has returned a
\* failure for the first and a delivery for the second.
C25_Witness ==
    /\ bcast.phase = "done" /\ ~bcast.threw /\ Len(bcast.ids) = 2
    /\ bcast.ids[1] = UnknownId /\ ~bcast.res[1].success
    /\ bcast.ids[2] # UnknownId /\ bcast.res[2].success

\* Delivery i has settled with a result of decryptAndVerifyBlock
Fulfilled(i) == i \in DOMAIN bcast.res /\ bcast.res[i].t = "fulfilled"

\* C37: in the outcome of broadcastSharedBlock a recipient is reported as a
\* success only if its decryption result had valid = true; a recipient whose
\* decryption returned valid = false is reported as a failure.
C37_SuccessMeansValid ==
    \A i \in 1..MaxIds :
        (bcast.phase = "done" /\ Fulfilled(i) /\ bcast.res[i].success) =>
            bcast.res[i].result = JsTrue

\* A broadcast has returned a success whose result is not valid
C37_InvalidSuccessReached ==
    /\ bcast.phase = "done" /\ ~bcast.threw
    /\ \E i \in DOMAIN bcast.res : bcast.res[i].success /\ bcast.res[i].result = JsFalse

\* A broadcast has returned a failure for a recipient whose decryption threw
C37_ThrowFailureReached ==
    /\ bcast.phase = "done" /\ ~bcast.threw
    /\ \E i \in DOMAIN bcast.res :
          ~bcast.res[i].success /\ bcast.res[i].error = "Decryption failed"

(***************************************************************************)
(* Team operations of several callers interleaved on one initialized       *)
(* coordinator (a user with its key pairs, scheme pqc).  A call runs up to *)
(* its next await in one step.  sess.c is the coordinator's state and      *)
(* sess.task[k] is call k: its position pc and its local variables.        *)
(***************************************************************************)
NumTasks == 2
MaxRotations == 1

Tasks == 1..NumTasks
SessScheme == "pqc"
SessUser == CHOOSE u \in Users : \A v \in Users : u <= v
SessData == Str(<<"a">>)

\* The operations a caller starts
TeamOps == {"encryptForTeam", "createSharedBlock", "decryptSharedBlock"}

\* The key sets handed to setTeamKeys: the key sets of the teams for this
\* member, and one that lacks a key, which no encryptor can be created from
SessKeySets ==
    {TeamKeySet(g, SessUser, KeyRep(SessScheme)) : g \in Users}
        \cup {[TeamKeySet(NumUsers, SessUser, KeyRep(SessScheme)) EXCEPT !.teamEdPrivate = Undef]}

\* A call that has not been made
IdleTask ==
    [op |-> "none", pc |-> "idle", block |-> Null, made |-> Null,
     usedKeys |-> Null, keysAtUse |-> Null, res |-> NoResult, out |-> NoResult]

\* The coordinator and the call after a step
Step(c, task) == [c |-> c, task |-> task]

\* The call ends: an operation that throws rejects, except decryptSharedBlock,
\* which returns the result object built from what its try block gave.
ended(c, task, r) ==
    Step(c, [task EXCEPT !.pc = "done",
                         !.out = IF task.op = "decryptSharedBlock"
                                 THEN Return(sharedBlockResult(Pair(r, c)))
                                 ELSE r])

\* createTeamEncryptor(this.teamKeys) up to its await: this.teamKeys is
\* assigned, the provider validates the keys and builds the encryptor at
\* once (throwing at once when they do not validate), and the call is
\* suspended on the await of its value.
enterCreateTeamEncryptor(c, task) ==
    Bind(ProviderCreateTeamEncryptor(SessScheme, c.teamKeys), LAMBDA made :
        IF ~made.ok THEN ended(c, task, Throw(made.err))
        ELSE Step(c, [task EXCEPT !.pc = "awaitCreate", !.made = made.val]))

\* encryptForTeam(data) up to its first await
enterEncryptForTeam(c, task) ==
    enterCreateTeamEncryptor(
        IF Truthy(c.teamKeys) THEN c
        ELSE [c EXCEPT !.teamKeys = generateTeamKeys(SessScheme, SessUser, TRUE).val],
        task)

\* decryptTeamBlock(block) up to its first await
enterDecryptTeamBlock(c, task) ==
    IF ~Truthy(task.block.teamEncrypted)
    THEN ended(c, task, Throw("Invalid team block structure: missing teamEncrypted property"))
    ELSE IF ~Truthy(task.block.teamKeys) /\ ~Truthy(c.teamKeys)
    THEN ended(c, task, Throw("No team keys available for decryption"))
    ELSE enterCreateTeamEncryptor(
            IF Truthy(task.block.teamKeys) THEN setTeamKeys(c, task.block.teamKeys) ELSE c,
            task)

\* createTeamEncryptor resumes: this.teamEncryptor = the awaited encryptor,
\* which it returns.
assignTeamEncryptor(c, task) ==
    Step([c EXCEPT !.teamEncryptor = task.made], [task EXCEPT !.pc = "created"])

\* The caller of createTeamEncryptor resumes with the encryptor and calls
\* its encrypt or decrypt; keysAtUse is this.teamKeys at that moment.
useTeamEncryptor(c, task) ==
    Bind(IF task.op = "decryptSharedBlock"
         THEN IF task.made.can_decrypt = JsFalse
              THEN Throw("Team encryptor does not have decryption capability with current keys")
              ELSE teamBlockResult(TeamDecrypt(task.made, task.block.teamEncrypted, FALSE), c).res
         ELSE encryptWithTeamEncryptor(task.made, SessData), LAMBDA r :
        Step(c, [task EXCEPT !.pc = "awaitUse", !.res = r,
                             !.usedKeys = task.made.keys, !.keysAtUse = c.teamKeys]))

\* The block createSharedBlock builds when encryptForMultipleRecipients
\* has returned: teamKeys is this.teamKeys as it is then.
blockOnReturn(c, task) ==
    SharedBlock(SessScheme, SessUser, SessData, "team",
                [teamEncrypted |-> task.res.val], c)

\* The operation resumes with the outcome of the encryptor's call and
\* returns.
returnFromUse(c, task) ==
    IF task.op = "createSharedBlock" /\ task.res.ok
    THEN ended(c, task, Return(blockOnReturn(c, task)))
    ELSE ended(c, task, [ok |-> task.res.ok, val |-> task.res.val, err |-> task.res.err,
                         verified |-> task.res.verified, under |-> task.res.under,
                         decaps |-> task.res.decaps])

InitSess ==
    /\ sess = [phase |-> "run", c |-> [NewCoordinator EXCEPT !.initialized = TRUE],
               task |-> [k \in Tasks |-> IdleTask], rotations |-> 0]
    /\ mbox = MailboxIdle /\ team = TeamIdle /\ CoordIdle
    /\ ini = IniIdle /\ prov = ProvIdle /\ bcast = BcastIdle /\ messageSizes = NoSizes

\* The state after a step of call k
SessAfter(k, r) == [sess EXCEPT !.c = r.c, !.task[k] = r.task]

\* Caller k calls op; a decryptSharedBlock is given a team block of team g.
SessCall(k, op, g) ==
    /\ sess.phase = "run" /\ sess.task[k].pc = "idle"
    /\ \E task \in {[IdleTask EXCEPT
                        !.op = op,
                        !.block = IF op = "decryptSharedBlock"
                                  THEN TeamBlockOf(SessScheme, g, SessData, "none")
                                  ELSE Null]} :
          sess' = IF op = "encryptForTeam"
                  THEN SessAfter(k, enterEncryptForTeam(sess.c, task))
                  ELSE SessAfter(k, Step(sess.c, [task EXCEPT !.pc = "ensureInitialized"]))
    /\ UNCHANGED notSess

\* await this.ensureInitialized() is over: createSharedBlock generates team
\* keys when there are none and awaits _normalizeDataToString;
\* decryptSharedBlock enters decryptTeamBlock.
SessInitialized(k) ==
    /\ sess.phase = "run" /\ sess.task[k].pc = "ensureInitialized"
    /\ sess' = IF sess.task[k].op = "createSharedBlock"
               THEN SessAfter(k, Step(
                        IF Truthy(sess.c.teamKeys) THEN sess.c
                        ELSE [sess.c EXCEPT !.teamKeys =
                                  generateTeamKeys(SessScheme, SessUser, TRUE).val],
                        [sess.task[k] EXCEPT !.pc = "normalize"]))
               ELSE SessAfter(k, enterDecryptTeamBlock(sess.c, sess.task[k]))
    /\ UNCHANGED notSess

\* await this._normalizeDataToString(data) is over: createSharedBlock calls
\* encryptForMultipleRecipients, which enters encryptForTeam.
SessNormalized(k) ==
    /\ sess.phase = "run" /\ sess.task[k].pc = "normalize"
    /\ sess' = SessAfter(k, enterEncryptForTeam(sess.c, sess.task[k]))
    /\ UNCHANGED notSess

\* The await in createTeamEncryptor is over.
SessEncryptorMade(k) ==
    /\ sess.phase = "run" /\ sess.task[k].pc = "awaitCreate"
    /\ sess' = SessAfter(k, assignTeamEncryptor(sess.c, sess.task[k]))
    /\ UNCHANGED notSess

\* The await of createTeamEncryptor in the operation is over.
SessUseEncryptor(k) ==
    /\ sess.phase = "run" /\ sess.task[k].pc = "created"
    /\ sess' = SessAfter(k, useTeamEncryptor(sess.c, sess.task[k]))
    /\ UNCHANGED notSess

\* The await of the encryptor's encrypt or decrypt is over.
SessReturn(k) ==
    /\ sess.phase = "run" /\ sess.task[k].pc = "awaitUse"
    /\ sess' = SessAfter(k, returnFromUse(sess.c, sess.task[k]))
    /\ UNCHANGED notSess

\* setTeamKeys(keys) is called between two steps of the calls.
SessSetTeamKeys(keys) ==
    /\ sess.phase = "run" /\ sess.rotations < MaxRotations
    /\ sess' = [sess EXCEPT !.c = setTeamKeys(sess.c, keys),
                            !.rotations = sess.rotations + 1]
    /\ UNCHANGED notSess

NextSess ==
    \/ \E k \in Tasks, op \in TeamOps, g \in Users : SessCall(k, op, g)
    \/ \E k \in Tasks : SessInitialized(k)
    \/ \E k \in Tasks : SessNormalized(k)
    \/ \E k \in Tasks : SessEncryptorMade(k)
    \/ \E k \in Tasks : SessUseEncryptor(k)
    \/ \E k \in Tasks : SessReturn(k)
    \/ \E keys \in SessKeySets : SessSetTeamKeys(keys)

SpecSess == InitSess /\ [][NextSess]_vars

\* Call k has called its encryptor's encrypt or decrypt
Used(k) == sess.task[k].usedKeys # Null

\* C31: a cached teamEncryptor was created from the coordinator's current
\* teamKeys, and every encrypt or decrypt of a team operation is made with
\* the teamKeys current at the time of the call.
C31_CachedEncryptorCurrent ==
    sess.phase = "run" =>
        /\ Truthy(sess.c.teamEncryptor) => sess.c.teamEncryptor.keys = sess.c.teamKeys
        /\ \A k \in Tasks : Used(k) => sess.task[k].usedKeys = sess.task[k].keysAtUse

\* While no call overlaps another and setTeamKeys is not called during a
\* call, the cached encryptor was created from the current keys.
C31_SequentialReached ==
    /\ sess.phase = "run" /\ Truthy(sess.c.teamEncryptor)
    /\ sess.c.teamEncryptor.keys = sess.c.teamKeys
    /\ \A k \in Tasks : sess.task[k].pc = "done"

\* A team block that createSharedBlock has returned to caller k
BlockReturned(k) ==
    /\ sess.task[k].op = "createSharedBlock" /\ sess.task[k].pc = "done"
    /\ sess.task[k].out.ok

\* C32: the teamKeys of every team block createSharedBlock returns are the
\* keys its teamEncrypted was encrypted and signed under.
C32_EmbeddedKeysMatch ==
    \A k \in Tasks :
        (sess.phase = "run" /\ BlockReturned(k)) =>
            /\ sess.task[k].out.val.teamKeys = sess.task[k].usedKeys
            /\ teamVerify(sess.task[k].out.val.teamEncrypted, sess.task[k].out.val.teamKeys).val

\* A block was returned whose teamKeys are the keys it was encrypted under.
C32_MatchReached ==
    \E k \in Tasks :
        /\ sess.phase = "run" /\ BlockReturned(k)
        /\ sess.task[k].out.val.teamKeys = sess.task[k].usedKeys

(***************************************************************************)
(* A recipient of a mailbox block forwards its content to a user the       *)
(* author encrypted nothing for: it decrypts its own version, encrypts the *)
(* plaintext for the new recipient with its own encryptor, and puts the    *)
(* signature of the version it received on the new message.                *)
(***************************************************************************)
\* The versions of a block, with the message for user r only
OnlyVersion(r, message) == [t |-> "map", m |-> [k \in {r} |-> message]]

\* The message user a makes for user r out of the version it received
reencrypted(scheme, a, r, received, signPublicKey) ==
    Bind(MailboxDecrypt(scheme, MailboxKeys(scheme, a), received, signPublicKey), LAMBDA opened :
        IF ~opened.ok THEN opened
        ELSE Bind(MailboxEncrypt(scheme, MailboxKeys(scheme, a), opened.val,
                                 KemPub(r, KeyRep(scheme))), LAMBDA fresh :
                IF ~fresh.ok THEN fresh
                ELSE Return([fresh.val EXCEPT !.signature = received.signature])))

\* User a, a recipient of the block in flight, replaces its versions by a
\* message for user r made from its own version.
Reencrypt(a, r) ==
    /\ sharedBlock # Null /\ ~forged /\ hasKeys[a]
    /\ sharedBlock.encryptorType = "mailbox" /\ Truthy(sharedBlock.encryptedVersions)
    /\ a # sharedBlock.userId /\ r # a
    /\ a \in DOMAIN sharedBlock.encryptedVersions.m
    /\ r \notin DOMAIN sharedBlock.encryptedVersions.m
    /\ \E made \in {reencrypted(cryptoScheme, a, r, sharedBlock.encryptedVersions.m[a],
                               sharedBlock.signPublicKey)} :
          /\ made.ok
          /\ sharedBlock' = [sharedBlock EXCEPT !.encryptedVersions = OnlyVersion(r, made.val)]
    /\ forged' = TRUE
    /\ last' = NoCall
    /\ UNCHANGED <<cryptoScheme, moduleLoaded, hasKeys, coord, created, notCoord>>

NextRelay ==
    \/ \E u \in Users : UserInit(u)
    \/ \E u \in Users, data \in DataTexts, loadOk \in LoadOutcomes :
          \E rcpts \in BlockRecipients("mailbox") :
              CreateSharedBlock(u, data, rcpts, "mailbox", loadOk)
    \/ \E a \in Users, r \in Users : Reencrypt(a, r)
    \/ \E u \in Users, loadOk \in LoadOutcomes : DecryptSharedBlock(u, loadOk)

SpecRelay == InitCoord /\ [][NextRelay]_vars

\* decryptSharedBlock has returned for a mailbox block whose only message
\* was made by a recipient and not by the holder of the secret key of
\* block.signPublicKey
RelayedCall ==
    /\ DecryptReturned /\ forged /\ Truthy(last.call)
    /\ last.call.encryptorType = "mailbox"

\* C34: decryptSharedBlock returns valid = true for a mailbox block only
\* for a message that the holder of the secret key of block.signPublicKey
\* made for this recipient; a message that another party encrypted for the
\* recipient, carrying a signature it received, is not accepted.
C34_SignatureBindsRecipient == RelayedCall => ~last.valid

\* Under the post-quantum scheme a relayed message was accepted as the
\* author's.
C34_PqcRelayAccepted ==
    /\ RelayedCall /\ cryptoScheme = "pqc" /\ last.valid
    /\ last.verified /\ last.under = last.call.signPublicKey

\* Under the ElGamal scheme a relayed message was rejected.
C34_ElGamalRelayRejected ==
    /\ RelayedCall /\ cryptoScheme = "elgamal" /\ ~last.valid
    /\ last.user \in DOMAIN last.call.encryptedVersions.m

(***************************************************************************)
(* Two createSharedBlock calls made on the same coordinator state with the *)
(* same recipients and encryptor type, for two payloads.                   *)
(***************************************************************************)
\* The fields of a block that are read without any secret key
ClearFields(block) ==
    [userId |-> block.userId, blockData |-> block.blockData,
     signPublicKey |-> block.signPublicKey, scheme |-> block.scheme,
     encryptorType |-> block.encryptorType]

\* The clear fields of a block other than blockData
StampFields(block) ==
    [userId |-> block.userId, signPublicKey |-> block.signPublicKey,
     scheme |-> block.scheme, encryptorType |-> block.encryptorType]

\* createSharedBlock(data1, ...) and, on the same state, createSharedBlock(data2, ...)
CreateSharedBlockTwice(u, data1, data2, rcpts, encryptorType, loadOk) ==
    /\ hasKeys[u] /\ created < MaxBlocks /\ data1 # data2
    /\ \E r1 \in {createSharedBlock(cryptoScheme, u, hasKeys[u], coord[u], Str(data1), rcpts,
                                   encryptorType, CanLoad(loadOk))} :
       \E r2 \in {createSharedBlock(cryptoScheme, u, hasKeys[u], coord[u], Str(data2), rcpts,
                                   encryptorType, CanLoad(loadOk))} :
        /\ coord' = [coord EXCEPT ![u] = r1.c]
        /\ moduleLoaded' = LoadedAfter(r1.c)
        /\ sharedBlock' = IF r1.res.ok THEN r1.res.val ELSE sharedBlock
        /\ created' = IF r1.res.ok THEN created + 1 ELSE created
        /\ forged' = IF r1.res.ok THEN FALSE ELSE forged
        /\ last' = [op |-> "createSharedBlockTwice", user |-> u,
                    data1 |-> Str(data1), data2 |-> Str(data2),
                    threw |-> ~r1.res.ok \/ ~r2.res.ok,
                    first |-> r1.res.val, second |-> r2.res.val]
    /\ UNCHANGED <<cryptoScheme, hasKeys, notCoord>>

\* The recipient lists of the two calls: lists of the users' KEM public keys
KeyLists(encryptorType) ==
    IF encryptorType = "team" THEN {<<>>}
    ELSE ListsUpTo({KemPub(i, KeyRep(cryptoScheme)) : i \in Users}, MaxRecipients)

NextClear ==
    \/ \E u \in Users : UserInit(u)
    \/ \E u \in Users, g \in Users : SetTeamKeys(u, g)
    \/ \E u \in Users, data1 \in DataTexts, data2 \in DataTexts,
          encryptorType \in ENCRYPTOR_TYPES, loadOk \in LoadOutcomes :
          \E rcpts \in KeyLists(encryptorType) :
              CreateSharedBlockTwice(u, data1, data2, rcpts, encryptorType, loadOk)

SpecClear == InitCoord /\ [][NextClear]_vars

\* Two blocks were returned for two payloads
TwoBlocks == last.op = "createSharedBlockTwice" /\ ~last.threw

\* C35: the fields of a block that are read without a secret key are the
\* same for two createSharedBlock calls that differ only in their data.
C35_ClearFieldsIndependent ==
    TwoBlocks => ClearFields(last.first) = ClearFields(last.second)

\* The clear fields other than blockData are the same for the two blocks,
\* and blockData is the data argument itself.
C35_StampFieldsEqual ==
    TwoBlocks =>
        /\ StampFields(last.first) = StampFields(last.second)
        /\ last.first.blockData = last.data1 /\ last.second.blockData = last.data2

(***************************************************************************)
(* The size estimates of the mailbox messages of a user, and the sizes     *)
(* that the stats entry of encryptForMultipleRecipients records.  The      *)
(* number _estimateSize gives for a value is kept as the value measured:   *)
(* it is 0 for a falsy value and positive for every message, signature and *)
(* ciphertext of the providers.                                            *)
(***************************************************************************)
MaxTracked == 2

ZeroSize == [t |-> "size", of |-> Null]

\* _estimateSize(data)
estimateSize(data) == IF ~Truthy(data) THEN ZeroSize ELSE [t |-> "size", of |-> data]

\* x || 0 for a size or a field that is absent
OrZero(x) == IF x = Undef \/ x = ZeroSize THEN ZeroSize ELSE x

\* The entry encryptForMailbox tracks for a message: the post-quantum
\* encryptor returns an object, the NaCl and ElGamal encryptors a string.
sizesOfMessage(message) ==
    IF message.t = "pqcmsg"
    THEN [encryptedSize |-> estimateSize(message.encryptedData),
          signatureSize |-> estimateSize(message.signature)]
    ELSE [encryptedSize |-> estimateSize(message), signatureSize |-> Undef]

\* The entries the loop of encryptForMailbox pushes on this.user.messageSizes
\* during its first n calls of encrypt, in order
RECURSIVE trackMessageSizes(_, _, _, _, _)
trackMessageSizes(scheme, keys, data, recipientPublicKeys, n) ==
    IF n = 0 THEN <<>>
    ELSE Bind(MailboxEncrypt(scheme, keys, data, recipientPublicKeys[n]), LAMBDA message :
            IF message.ok
            THEN Append(trackMessageSizes(scheme, keys, data, recipientPublicKeys, n - 1),
                        sizesOfMessage(message.val))
            ELSE trackMessageSizes(scheme, keys, data, recipientPublicKeys, n - 1))

\* The sizes encryptForMultipleRecipients hands to _createStats in mailbox
\* mode, and the encryptedSize and signatureSize of the entry it pushes
statsSizes(sizes) ==
    IF Len(sizes) > 0
    THEN [encryptedSize |-> OrZero(sizes[Len(sizes)].encryptedSize),
          signatureSize |-> OrZero(sizes[Len(sizes)].signatureSize)]
    ELSE [encryptedSize |-> ZeroSize, signatureSize |-> ZeroSize]

\* encryptForMultipleRecipients(data, recipientPublicKeys, 'mailbox') with
\* the sizes it tracks and the stats entry it pushes
EncryptAndRecord(u, data, rcpts, loadOk) ==
    /\ Len(messageSizes[u]) + Len(rcpts) <= MaxTracked
    /\ \E r \in {encryptForMultipleRecipients(cryptoScheme, u, hasKeys[u], coord[u], Str(data),
                                              rcpts, "mailbox", CanLoad(loadOk))} :
       \E tracked \in {trackMessageSizes(cryptoScheme, MailboxKeys(cryptoScheme, u), Str(data),
                                         rcpts, r.res.calls)} :
        /\ coord' = [coord EXCEPT ![u] = r.c]
        /\ moduleLoaded' = LoadedAfter(r.c)
        /\ messageSizes' = [messageSizes EXCEPT ![u] = @ \o tracked]
        /\ last' = [op |-> "encryptAndRecord", user |-> u, threw |-> ~r.res.ok,
                    tracked |-> tracked,
                    stats |-> IF r.res.ok THEN statsSizes(messageSizes[u] \o tracked)
                              ELSE Undef]
    /\ UNCHANGED <<cryptoScheme, hasKeys, sharedBlock, created, forged,
                   mbox, team, ini, prov, bcast, sess>>

NextSizes ==
    \/ \E u \in Users : UserInit(u)
    \/ \E u \in Users, data \in CountedTexts, rcpts \in RecipientLists(cryptoScheme),
          loadOk \in LoadOutcomes :
          EncryptAndRecord(u, data, rcpts, loadOk)

SpecSizes == InitCoord /\ [][NextSizes]_vars

\* A mailbox call has returned and pushed its stats entry
Recorded == last.op = "encryptAndRecord" /\ ~last.threw

\* The stats entry holds the sizes tracked for message i of the call
SizesOf(i) ==
    /\ last.stats.encryptedSize = OrZero(last.tracked[i].encryptedSize)
    /\ last.stats.signatureSize = OrZero(last.tracked[i].signatureSize)

\* C36: the encryptedSize and signatureSize of the stats entry of a mailbox
\* encryptForMultipleRecipients call are those of a message encrypted during
\* that call, and are 0 when the call encrypted for no recipient.
C36_SizesOfOwnOperation ==
    Recorded =>
        IF last.tracked = <<>>
        THEN last.stats.encryptedSize = ZeroSize /\ last.stats.signatureSize = ZeroSize
        ELSE \E i \in DOMAIN last.tracked : SizesOf(i)

\* A call that encrypted a message records the sizes of its last message
C36_OwnSizesReached ==
    Recorded /\ last.tracked # <<>> /\ SizesOf(Len(last.tracked))

\* A call that encrypted nothing records the sizes of an earlier call
C36_StaleSizesReached ==
    Recorded /\ last.tracked = <<>> /\ last.stats.encryptedSize # ZeroSize

=============================================================================
